---- MODULE Spec2Model ----
(***************************************************************************)
(* go-mitmproxy: a verification model of                                   *)
(*   - helper.ReaderToBuffer                  (specification SpecRTB)      *)
(*   - the request pipeline Attacker.Attack and the CONNECT handler        *)
(*     entry.handleConnect, one flow at a time (specification SpecFlow)    *)
(*   - the connection wrappers WrapClientConn / WrapServerConn and the     *)
(*     dial sites that install a server connection (specification Spec)    *)
(*   - TrustedCA.GetCert                       (specification SpecCA)      *)
(*   - addonregistry.Registry                  (specification SpecRegistry)*)
(*   - conn.Context.FlowCount under HTTP/2     (specification SpecStreams) *)
(*   - the client-side TLS handshake and ALPN  (specification SpecALPN)    *)
(*   - transfer, the tunnel copy               (specification SpecTransfer)*)
(*   - the accept loop, routing and Close      (specification SpecProxy)   *)
(*   - the wrappers' Close under fairness      (specification SpecClose)   *)
(*   - the connection lifecycle under fairness (specification SpecConnFair)*)
(*   - the dial through an upstream proxy      (specification SpecUpstream)*)
(*   - the hosts of a plain-HTTP connection    (specification SpecForward) *)
(*   - the dial-first TLS splice               (specification SpecSplice)  *)
(***************************************************************************)
EXTENDS Integers, Sequences, FiniteSets, TLC

\* ------------------------------------------------------------------------
\* Bounds
\* ------------------------------------------------------------------------
\* longest body / byte source
MaxLen == 3
\* largest buffering threshold handed to ReaderToBuffer
MaxLimit == 3
\* largest chunk one Read call of the consumer asks for
MaxChunk == 2
\* number of registered addons
NumAddons == 2
\* number of server connections a connection context may see dialed
MaxDials == 2
\* number of requests the client sends on one connection
MaxRequests == 2
\* number of top-level Close calls the background goroutines make in all
MaxCalls == 2
\* number of goroutines calling GetCert concurrently
NumCallers == 3
\* number of goroutines at a dispatch site of the addon registry
NumUsers == 2
\* number of hosts the requests of one client connection may name
NumHosts == 2
\* number of HTTP/2 streams of one connection that run the pipeline concurrently
NumStreams == 3
\* number of client connections the proxy accepts
NumConns == 2

\* byte values used in sources
Byte == {1, 2}
\* marker: the source never fails
NoErr == -1

Min(a, b) == IF a < b THEN a ELSE b

VARIABLES
    \* ---- SpecRTB ----
    rtb_src,      \* the io.Reader handed to ReaderToBuffer: data, pos, errAt
    rtb_limit,    \* the limit argument
    rtb_res,      \* what ReaderToBuffer returned
    rtb_out,      \* bytes the caller has read from the returned reader
    rtb_st,       \* "init" | "returned" | "eof" | "err"
    \* ---- SpecFlow ----
    kind,         \* "pipeline" (Attacker.Attack) | "connect" (entry.handleConnect) | "none"
    pc,           \* position of the handler
    idx,          \* index of the addon the current hook loop is at
    f,            \* the Flow
    connCtx,      \* the conn.Context fields the handlers read and write
    inp,          \* the inputs of this flow: entry path, threshold
    trace,        \* events of this flow in program order
    hist,         \* history of decisions taken by the handler
    \* ---- Spec ----
    accepted,     \* wrapListener.Accept has returned this connection
    events,       \* addon connection events in delivery order
    wcc,          \* WrapClientConn fields
    wsc,          \* WrapServerConn per dialed server connection
    cc,           \* conn.Context fields: ServerConn, DialFn, TLS, CloseAfterResponse
    handler,      \* position of the goroutine serving the client connection
    stack,        \* call stack of Close frames per goroutine
    ghost,        \* history: who closed what and how
    \* ---- SpecCA ----
    ca_cache,     \* TrustedCA.cache: common name -> certificate (0: absent)
    ca_group,     \* TrustedCA.group: common name -> call in flight (0: none)
    ca_calls,     \* the single-flight calls made so far: cn, val, err, done
    ca_g,         \* per calling goroutine: pc, cn, joined call, result
    ca_issued,    \* the certificates issued, in order; a certificate is its index
    \* ---- SpecProxy ----
    srv,          \* the proxy process: its servers, listener and client connections
    \* ---- SpecALPN ----
    hs,           \* one intercepted TLS handshake: offers, negotiated protocols
    \* ---- SpecTransfer ----
    tr,           \* one bidirectional copy: sockets, copy goroutines, errChan
    \* ---- SpecRegistry ----
    reg,          \* the addon registry, its lock, and the goroutines using it
    \* ---- SpecStreams ----
    h2,           \* concurrent requests of one connection entering Attack
    \* ---- SpecForward ----
    fwd,          \* one plain-HTTP client connection: its requests and server connection
    \* ---- SpecSplice ----
    sp,           \* one dial-first TLS splice: its goroutines, channels and sockets
    \* ---- SpecUpstream ----
    up            \* one GetUpstreamConn call: the dial, the CONNECT exchange, the result

rtbVars  == <<rtb_src, rtb_limit, rtb_res, rtb_out, rtb_st>>
flowVars == <<kind, pc, idx, f, connCtx, inp, trace, hist>>
connVars == <<accepted, events, wcc, wsc, cc, handler, stack, ghost>>
caVars   == <<ca_cache, ca_group, ca_calls, ca_g, ca_issued>>
auxVars  == <<srv, hs, tr, reg, h2, fwd, sp, up>>
vars     == <<rtb_src, rtb_limit, rtb_res, rtb_out, rtb_st,
              kind, pc, idx, f, connCtx, inp, trace, hist,
              accepted, events, wcc, wsc, cc, handler, stack, ghost,
              ca_cache, ca_group, ca_calls, ca_g, ca_issued,
              srv, hs, tr, reg, h2, fwd, sp, up>>

\* ------------------------------------------------------------------------
\* Sequences helpers
\* ------------------------------------------------------------------------
Take(s, n) == SubSeq(s, 1, Min(n, Len(s)))
Drop(s, n) == SubSeq(s, Min(n, Len(s)) + 1, Len(s))
SeqsUpTo(S, n) == UNION {[1..k -> S] : k \in 0..n}
Count(s, e) == Cardinality({i \in 1..Len(s) : s[i] = e})
\* position of the first occurrence of e in s, 0 when absent
Pos(s, e) == IF \E i \in 1..Len(s) : s[i] = e
             THEN CHOOSE i \in 1..Len(s) : s[i] = e /\ \A j \in 1..(i-1) : s[j] # e
             ELSE 0

\* ------------------------------------------------------------------------
\* helper.ReaderToBuffer
\* ------------------------------------------------------------------------
\* An io.Reader over a byte source: data, the read position, and the offset
\* at which a Read fails (NoErr: it ends with a clean EOF).
NewReader(data, errAt) == [data |-> data, pos |-> 0, errAt |-> errAt]
Remaining(r) == Len(r.data) - r.pos

\* io.Copy(buf, io.LimitReader(r, limit)): reads until the limited reader
\* reports EOF (limit bytes delivered, or the source ended) or the source fails.
\* The limited reader stops asking the source once limit bytes were delivered.
CopyLimited(r, limit) ==
    LET want == Min(limit, Remaining(r))
        fails == r.errAt # NoErr /\ r.errAt < r.pos + limit
        n == IF fails THEN r.errAt - r.pos ELSE want
    IN [buf |-> SubSeq(r.data, r.pos + 1, r.pos + n),
        r   |-> [r EXCEPT !.pos = r.pos + n],
        err |-> fails]

ReaderToBuffer_OffByOne(r, limit) ==
    LET c == CopyLimited(r, limit + 1)
    IN IF c.err
       THEN [bufNil |-> TRUE, buf |-> <<>>, readerNil |-> TRUE,
             reader |-> [head |-> <<>>, r |-> c.r], err |-> TRUE]
       ELSE IF Len(c.buf) = limit + 1
       THEN [bufNil |-> TRUE, buf |-> <<>>, readerNil |-> FALSE,
             reader |-> [head |-> c.buf, r |-> c.r], err |-> FALSE]
       ELSE [bufNil |-> FALSE, buf |-> c.buf, readerNil |-> TRUE,
             reader |-> [head |-> <<>>, r |-> c.r], err |-> FALSE]

ReaderToBuffer_DropPrefix(r, limit) ==
    LET c == CopyLimited(r, limit)
    IN IF c.err
       THEN [bufNil |-> TRUE, buf |-> <<>>, readerNil |-> TRUE,
             reader |-> [head |-> <<>>, r |-> c.r], err |-> TRUE]
       ELSE IF Len(c.buf) = limit
       THEN [bufNil |-> TRUE, buf |-> <<>>, readerNil |-> FALSE,
             reader |-> [head |-> <<>>, r |-> c.r], err |-> FALSE]
       ELSE [bufNil |-> FALSE, buf |-> c.buf, readerNil |-> TRUE,
             reader |-> [head |-> <<>>, r |-> c.r], err |-> FALSE]

\* Returns (bytes, nil, nil) when the limit was not reached, (nil, reader, nil)
\* when it was, with reader = io.MultiReader(buffered prefix, r), and
\* (nil, nil, err) when the copy failed.
ReaderToBuffer(r, limit) ==
    LET c == CopyLimited(r, limit)
    IN IF c.err
       THEN [bufNil |-> TRUE, buf |-> <<>>, readerNil |-> TRUE,
             reader |-> [head |-> <<>>, r |-> c.r], err |-> TRUE]
       ELSE IF Len(c.buf) = limit
       THEN [bufNil |-> TRUE, buf |-> <<>>, readerNil |-> FALSE,
             reader |-> [head |-> c.buf, r |-> c.r], err |-> FALSE]
       ELSE [bufNil |-> FALSE, buf |-> c.buf, readerNil |-> TRUE,
             reader |-> [head |-> <<>>, r |-> c.r], err |-> FALSE]

\* One Read(p) with len(p) = k on an io.MultiReader(head, r): the first reader
\* is drained first, then the second one; a Read never spans both.
MultiRead(mr, k) ==
    IF Len(mr.head) > 0
    THEN [bytes |-> Take(mr.head, k), eof |-> FALSE, err |-> FALSE,
          mr |-> [mr EXCEPT !.head = Drop(mr.head, k)]]
    ELSE IF mr.r.errAt # NoErr /\ mr.r.errAt = mr.r.pos
    THEN [bytes |-> <<>>, eof |-> FALSE, err |-> TRUE, mr |-> mr]
    ELSE IF Remaining(mr.r) = 0
    THEN [bytes |-> <<>>, eof |-> TRUE, err |-> FALSE, mr |-> mr]
    ELSE LET avail == IF mr.r.errAt # NoErr THEN mr.r.errAt - mr.r.pos ELSE Remaining(mr.r)
             n == Min(k, avail)
         IN [bytes |-> SubSeq(mr.r.data, mr.r.pos + 1, mr.r.pos + n),
             eof |-> FALSE, err |-> FALSE,
             mr |-> [mr EXCEPT !.r.pos = mr.r.pos + n]]

NoResult == [bufNil |-> TRUE, buf |-> <<>>, readerNil |-> TRUE,
             reader |-> [head |-> <<>>, r |-> NewReader(<<>>, NoErr)], err |-> FALSE]

\* the connection variables while another specification runs
ConnIdle == [accepted |-> FALSE, events |-> <<>>, wcc |-> [closed |-> FALSE], wsc |-> <<>>,
             cc |-> [ServerConn |-> 0], handler |-> [pc |-> "idle"], stack |-> <<>>,
             ghost |-> <<>>]

\* values of the SpecProxy, SpecALPN, SpecTransfer, SpecRegistry and
\* SpecStreams variables while another specification runs
AuxIdle == [srv |-> [proc |-> "idle"], hs |-> [pc |-> "idle"], tr |-> [main |-> "idle"],
            reg |-> [addons |-> <<>>], h2 |-> [FlowCount |-> 0],
            fwd |-> [pc |-> "idle"], sp |-> [main |-> "idle"], up |-> [pc |-> "idle"]]

\* values of the SpecRTB variables while another specification runs
RTBIdle == [src |-> NewReader(<<>>, NoErr), limit |-> 0, res |-> NoResult,
            out |-> <<>>, st |-> "idle"]

\* the caller invokes ReaderToBuffer(r, limit)
RTBCall ==
    /\ rtb_st = "init"
    /\ rtb_res' = ReaderToBuffer(rtb_src, rtb_limit)
    /\ rtb_st' = "returned"
    /\ UNCHANGED <<rtb_src, rtb_limit, rtb_out>>
    /\ UNCHANGED <<flowVars, connVars, caVars, auxVars>>

\* the caller reads the returned reader, k bytes at a time, until EOF or error
RTBRead ==
    /\ rtb_st = "returned"
    /\ ~rtb_res.readerNil
    /\ \E k \in 1..MaxChunk :
         LET rd == MultiRead(rtb_res.reader, k)
         IN /\ rtb_out' = rtb_out \o rd.bytes
            /\ rtb_res' = [rtb_res EXCEPT !.reader = rd.mr]
            /\ rtb_st' = IF rd.err THEN "err" ELSE IF rd.eof THEN "eof" ELSE "returned"
    /\ UNCHANGED <<rtb_src, rtb_limit>>
    /\ UNCHANGED <<flowVars, connVars, caVars, auxVars>>

NextRTB == RTBCall \/ RTBRead

\* ------------------------------------------------------------------------
\* One flow: Attacker.Attack (pipeline) and entry.handleConnect (CONNECT)
\* ------------------------------------------------------------------------
Addons == 1..NumAddons

\* a body of n bytes
Body(n) == [i \in 1..n |-> 1]

\* types.NewFlow(): no response, not streaming, done channel open
NewFlow == [Response |-> [set |-> FALSE, by |-> "none", Body |-> FALSE, Close |-> FALSE],
            Stream |-> FALSE,
            UseSeparateClient |-> FALSE,
            urlChanged |-> FALSE,
            ReqBody |-> FALSE]

NoHist == [done |-> 0, panicking |-> FALSE, panicked |-> FALSE, defers |-> <<>>,
           early |-> "none", failure |-> "none", replied |-> "none",
           reqRead |-> "none", reqLen |-> 0, streamAtReq |-> FALSE,
           resRead |-> "none", resLen |-> 0, streamAtRes |-> FALSE,
           flipReq |-> FALSE, flipRes |-> FALSE, mode |-> "none",
           shouldIntercept |-> FALSE, certAtBranch |-> TRUE, peek |-> <<>>,
           proxyResClose |-> FALSE, connectionClose |-> FALSE, client |-> "none"]

Ev(name, n) == <<name, n>>
Emit(name, n) == trace' = Append(trace, Ev(name, n))
\* number of events of that name in the trace
CountEv(name) == Cardinality({i \in 1..Len(trace) : trace[i][1] = name})
HasEv(name) == \E i \in 1..Len(trace) : trace[i][1] = name
\* position of the first / last event of that name, 0 when absent
FirstEv(name) == IF HasEv(name)
                 THEN CHOOSE i \in 1..Len(trace) :
                        trace[i][1] = name /\ \A j \in 1..(i-1) : trace[j][1] # name
                 ELSE 0
LastEv(name) == IF HasEv(name)
                THEN CHOOSE i \in 1..Len(trace) :
                       trace[i][1] = name /\ \A j \in (i+1)..Len(trace) : trace[j][1] # name
                ELSE 0

\* The calls Attack defers, in registration order: the recover block, then
\* f.Finish(). They run last-registered first when Attack returns or panics.
AttackDefers_NoFinish == <<"recover">>

AttackDefers == <<"recover", "Finish">>

\* handleConnect defers f.Finish() only; it has no recover block.
ConnectDefers == <<"Finish">>

\* The stages of Attack in program order.
AttackOrder_BodyFirst ==
    <<"readRequestBody", "handleRequestAddons", "StreamRequestModifier",
      "executeProxyRequest", "handleResponseHeadersAddons", "readResponseBody",
      "StreamResponseModifier", "replyToClient", "return">>

AttackOrder ==
    <<"handleRequestAddons", "readRequestBody", "StreamRequestModifier",
      "executeProxyRequest", "handleResponseHeadersAddons", "readResponseBody",
      "StreamResponseModifier", "replyToClient", "return">>

After(stage) == AttackOrder[Pos(AttackOrder, stage) + 1]

\* What Attack does with the outcome of a stage: "ok" goes on to the next
\* stage, "early" (an addon supplied the response) replies with f.Response and
\* returns, "fail" (the stage wrote an error status) returns.
AttackNext_IgnoreEarly(stage, out) ==
    IF out = "ok" \/ (out = "early" /\ stage = "handleRequestAddons") THEN After(stage)
    ELSE IF out = "early" THEN "replyEarly"
    ELSE "return"

AttackNext_ContinueOnFail(stage, out) ==
    IF out = "ok" \/ out = "fail" THEN After(stage)
    ELSE IF out = "early" THEN "replyEarly"
    ELSE "return"

AttackNext(stage, out) ==
    IF out = "ok" THEN After(stage)
    ELSE IF out = "early" THEN "replyEarly"
    ELSE "return"

\* readRequestBody / readResponseBody return the raw reader without buffering
\* when the flow is already in stream mode.
SkipBuffering_Never(flow) == FALSE

SkipBuffering(flow) == flow.Stream

\* what addons may do to the flow in each hook
RequestheadersActs  == {"nop", "setResponse", "setStream", "setSeparate", "changeURL", "panic"}
RequestActs         == {"nop", "setResponse", "panic"}
ModifierActs        == {"nop", "panic"}
ResponseheadersActs == {"nop", "setBody", "setStream", "panic"}
ResponseActs        == {"nop", "panic"}
ConnectActs         == {"nop", "upstreamCertOff", "interceptOff", "panic"}

\* handleConnect's branch after the Requestheaders hooks
ConnectMode_IgnoreUpstreamCert(shouldIntercept, upstreamCert) ==
    IF ~shouldIntercept THEN "direct" ELSE "dialfirst"

ConnectMode(shouldIntercept, upstreamCert) ==
    IF ~shouldIntercept THEN "direct"
    ELSE IF upstreamCert THEN "dialfirst"
    ELSE "lazy"

\* the function handleConnect calls for each mode
ModeHandler(mode) ==
    CASE mode = "direct"    -> "directTransfer"
      [] mode = "dialfirst" -> "httpsDialFirstAttack"
      [] mode = "lazy"      -> "establishConnection"

\* httpsDialFirstAttack after HTTPSDial: go on to establish the tunnel, or return
HttpsDialFirstNext_IgnoreError(ok) == "establishConnection"

HttpsDialFirstNext(ok) == IF ok THEN "establishConnection" ELSE "return"

\* the status directTransfer and httpsDialFirstAttack write when the dial fails
ConnectDialFailureStatus(err) == 502

\* the status executeProxyRequest writes when the dial function fails: 407
\* when the error text contains "Proxy Authentication Required", else 502
DialFailureStatus_Always502(err) == 502

DialFailureStatus(err) == IF err = "autherr" THEN 407 ELSE 502

\* the first three bytes a client may send into the tunnel
PeekInputs == {<<22, 3, 1>>, <<22, 3, 3>>, <<22, 3, 4>>, <<22, 2, 1>>, <<71, 69, 84>>}

\* helper.IsTLS: the TLS record magic
IsTLS_Always(buf) == TRUE

IsTLS(buf) == buf[1] = 22 /\ buf[2] = 3 /\ buf[3] <= 3

AddonResponse == [set |-> TRUE, by |-> "addon", Body |-> TRUE, Close |-> FALSE]

ApplyAct(flow, act) ==
    CASE act = "setResponse" -> [flow EXCEPT !.Response = AddonResponse]
      [] act = "setStream"   -> [flow EXCEPT !.Stream = TRUE]
      [] act = "setSeparate" -> [flow EXCEPT !.UseSeparateClient = TRUE]
      [] act = "changeURL"   -> [flow EXCEPT !.urlChanged = TRUE]
      [] act = "setBody"     -> [flow EXCEPT !.Response.Body = TRUE]
      [] OTHER               -> flow

\* a panic starts unwinding: the deferred calls run next
Panics == /\ pc' = "defers"
          /\ hist' = [hist EXCEPT !.panicking = TRUE, !.panicked = TRUE]

FlowIdle == [kind |-> "none", pc |-> "idle", idx |-> 0, f |-> NewFlow,
             connCtx |-> [ServerConn |-> "nil", DialFn |-> "nil",
                          CloseAfterResponse |-> FALSE, FlowCount |-> 0,
                          UpstreamCert |-> TRUE, Intercept |-> FALSE, TLS |-> FALSE],
             inp |-> [path |-> "none", limit |-> 0], trace |-> <<>>, hist |-> NoHist]

\* entry.ServeHTTP (forward path: InitHTTPDialFn) and the head of Attack:
\* register the recover block, create the flow, defer Finish, count the flow.
AttackStart ==
    /\ pc = "start" /\ kind = "pipeline"
    /\ connCtx' = [connCtx EXCEPT
                     !.DialFn = IF inp.path = "forward" THEN "http" ELSE @,
                     !.FlowCount = @ + 1]
    /\ f' = NewFlow
    /\ hist' = [hist EXCEPT !.defers = AttackDefers]
    /\ pc' = AttackOrder[1]
    /\ idx' = 1
    /\ UNCHANGED <<kind, inp, trace>>
    /\ UNCHANGED <<rtbVars, connVars, caVars, auxVars>>

\* handleRequestAddons: one addon's Requestheaders, then the f.Response check
HandleRequestAddons ==
    /\ pc = "handleRequestAddons"
    /\ \E act \in RequestheadersActs :
         /\ Emit("Requestheaders", idx)
         /\ IF act = "panic"
            THEN Panics /\ UNCHANGED <<f, idx>>
            ELSE /\ f' = ApplyAct(f, act)
                 /\ IF f'.Response.set
                    THEN /\ pc' = AttackNext("handleRequestAddons", "early")
                         /\ idx' = 1
                         /\ hist' = [hist EXCEPT !.early = "Requestheaders"]
                    ELSE /\ pc' = IF idx < NumAddons THEN pc
                                  ELSE AttackNext("handleRequestAddons", "ok")
                         /\ idx' = IF idx < NumAddons THEN idx + 1 ELSE 1
                         /\ UNCHANGED hist
    /\ UNCHANGED <<kind, connCtx, inp>>
    /\ UNCHANGED <<rtbVars, connVars, caVars, auxVars>>

\* readRequestBody up to the Request hooks: stream mode already set, or
\* ReaderToBuffer(req.Body, streamLargeBodies) fails / hits the limit / buffers
ReadRequestBody ==
    /\ pc = "readRequestBody"
    /\ \E n \in 0..MaxLen : \E e \in {NoErr} \cup (0..n) :
         LET rb == ReaderToBuffer(NewReader(Body(n), e), inp.limit)
             h  == [hist EXCEPT !.reqLen = n, !.streamAtReq = f.Stream]
         IN IF SkipBuffering(f)
            THEN /\ e = NoErr
                 /\ pc' = AttackNext("readRequestBody", "ok")
                 /\ hist' = [h EXCEPT !.reqRead = "skipped"]
                 /\ UNCHANGED <<f, trace>>
            ELSE IF rb.err
            THEN /\ Emit("WriteHeader", 502)
                 /\ pc' = AttackNext("readRequestBody", "fail")
                 /\ hist' = [h EXCEPT !.reqRead = "error", !.failure = "reqbody"]
                 /\ UNCHANGED f
            ELSE IF rb.bufNil
            THEN /\ f' = [f EXCEPT !.Stream = TRUE]
                 /\ pc' = AttackNext("readRequestBody", "ok")
                 /\ hist' = [h EXCEPT !.reqRead = "stream", !.flipReq = TRUE]
                 /\ UNCHANGED trace
            ELSE /\ f' = [f EXCEPT !.ReqBody = TRUE]
                 /\ pc' = "Request"
                 /\ hist' = [h EXCEPT !.reqRead = "buffered"]
                 /\ UNCHANGED trace
    /\ idx' = 1
    /\ UNCHANGED <<kind, connCtx, inp>>
    /\ UNCHANGED <<rtbVars, connVars, caVars, auxVars>>

\* readRequestBody, the Request hook loop: an addon may supply the response
RequestHook ==
    /\ pc = "Request"
    /\ \E act \in RequestActs :
         /\ Emit("Request", idx)
         /\ IF act = "panic"
            THEN Panics /\ UNCHANGED <<f, idx>>
            ELSE /\ f' = ApplyAct(f, act)
                 /\ IF f'.Response.set
                    THEN /\ pc' = AttackNext("readRequestBody", "early")
                         /\ idx' = 1
                         /\ hist' = [hist EXCEPT !.early = "Request"]
                    ELSE /\ pc' = IF idx < NumAddons THEN pc
                                  ELSE AttackNext("readRequestBody", "ok")
                         /\ idx' = IF idx < NumAddons THEN idx + 1 ELSE 1
                         /\ UNCHANGED hist
    /\ UNCHANGED <<kind, connCtx, inp>>
    /\ UNCHANGED <<rtbVars, connVars, caVars, auxVars>>

\* the StreamRequestModifier loop
StreamRequestModifier ==
    /\ pc = "StreamRequestModifier"
    /\ \E act \in ModifierActs :
         /\ Emit("StreamRequestModifier", idx)
         /\ IF act = "panic"
            THEN Panics /\ UNCHANGED idx
            ELSE /\ pc' = IF idx < NumAddons THEN pc
                          ELSE AttackNext("StreamRequestModifier", "ok")
                 /\ idx' = IF idx < NumAddons THEN idx + 1 ELSE 1
                 /\ UNCHANGED hist
    /\ UNCHANGED <<kind, f, connCtx, inp>>
    /\ UNCHANGED <<rtbVars, connVars, caVars, auxVars>>

\* executeProxyRequest: the shared main client is used when the flow asks for
\* it, or when the URL's host or scheme is no longer the one recorded at the
\* start of the flow
UseSeparateClient_FlagOnly(useSeparateClient, urlChanged) == useSeparateClient

UseSeparateClient(useSeparateClient, urlChanged) == useSeparateClient \/ urlChanged

\* executeProxyRequest up to the exchange: build the upstream request, pick
\* the client, and invoke the deferred dial function when the connection has
\* no server connection yet
ExecuteProxyRequest ==
    /\ pc = "executeProxyRequest"
    /\ LET sep == UseSeparateClient(f.UseSeparateClient, f.urlChanged)
       IN \/ /\ f.urlChanged                 \* http.NewRequestWithContext rejects the URL
             /\ Emit("WriteHeader", 502)
             /\ pc' = AttackNext("executeProxyRequest", "fail")
             /\ hist' = [hist EXCEPT !.failure = "newreq"]
             /\ UNCHANGED connCtx
          \/ /\ sep
             /\ pc' = "Do"
             /\ UNCHANGED <<connCtx, trace, hist>>
          \/ /\ ~sep
             /\ ~(connCtx.ServerConn = "nil" /\ connCtx.DialFn # "nil")
             /\ pc' = "Do"
             /\ UNCHANGED <<connCtx, trace, hist>>
          \/ /\ ~sep
             /\ connCtx.ServerConn = "nil" /\ connCtx.DialFn # "nil"
             /\ \E res \in {"ok", "err", "autherr", "tlsfail"} :
                  /\ (res = "tlsfail" => connCtx.DialFn = "https")
                  /\ CASE res = "ok" ->
                            /\ Emit("Dial", 0)
                            /\ connCtx' = [connCtx EXCEPT !.ServerConn = "ready"]
                            /\ pc' = "Do"
                            /\ UNCHANGED hist
                       [] res = "err" ->
                            /\ trace' = trace \o <<Ev("Dial", 0),
                                                    Ev("WriteHeader", DialFailureStatus(res))>>
                            /\ pc' = AttackNext("executeProxyRequest", "fail")
                            /\ hist' = [hist EXCEPT !.failure = "dial"]
                            /\ UNCHANGED connCtx
                       [] res = "autherr" ->
                            /\ trace' = trace \o <<Ev("Dial", 0),
                                                    Ev("WriteHeader", DialFailureStatus(res))>>
                            /\ pc' = AttackNext("executeProxyRequest", "fail")
                            /\ hist' = [hist EXCEPT !.failure = "dialauth"]
                            /\ UNCHANGED connCtx
                       [] res = "tlsfail" ->    \* HTTPSDial succeeded, serverTLSHandshake failed
                            /\ trace' = trace \o <<Ev("Dial", 0),
                                                    Ev("WriteHeader", DialFailureStatus(res))>>
                            /\ connCtx' = [connCtx EXCEPT !.ServerConn = "noclient"]
                            /\ pc' = AttackNext("executeProxyRequest", "fail")
                            /\ hist' = [hist EXCEPT !.failure = "dial"]
    /\ UNCHANGED <<kind, idx, f, inp>>
    /\ UNCHANGED <<rtbVars, connVars, caVars, auxVars>>

\* executeProxyRequest, the exchange: a.client.Do or ServerConn.Client.Do, and
\* on success the head of the response handling in Attack (closeAfterResponse,
\* defer proxyRes.Body.Close(), f.Response)
UpstreamDo ==
    /\ pc = "Do"
    /\ LET sep == UseSeparateClient(f.UseSeparateClient, f.urlChanged)
       IN IF ~sep /\ connCtx.ServerConn # "ready"
          THEN \* ServerConn or ServerConn.Client is nil
               Panics /\ UNCHANGED <<f, connCtx, trace>>
          ELSE \E ok \in BOOLEAN, close \in BOOLEAN :
                 IF ok
                 THEN /\ Emit("Do", 0)
                      /\ connCtx' = [connCtx EXCEPT !.CloseAfterResponse = @ \/ close]
                      /\ f' = [f EXCEPT !.Response =
                                 [set |-> TRUE, by |-> "upstream", Body |-> FALSE, Close |-> close]]
                      /\ hist' = [hist EXCEPT !.defers = Append(@, "BodyClose"),
                                              !.proxyResClose = close,
                                              !.client = IF sep THEN "main" ELSE "server"]
                      /\ pc' = AttackNext("executeProxyRequest", "ok")
                 ELSE /\ ~close
                      /\ trace' = trace \o <<Ev("Do", 0), Ev("WriteHeader", 502)>>
                      /\ hist' = [hist EXCEPT !.failure = "do",
                                              !.client = IF sep THEN "main" ELSE "server"]
                      /\ pc' = AttackNext("executeProxyRequest", "fail")
                      /\ UNCHANGED <<f, connCtx>>
    /\ UNCHANGED <<kind, idx, inp>>
    /\ UNCHANGED <<rtbVars, connVars, caVars, auxVars>>

\* handleResponseHeadersAddons: one addon's Responseheaders, then the
\* f.Response.Body check
HandleResponseHeadersAddons ==
    /\ pc = "handleResponseHeadersAddons"
    /\ \E act \in ResponseheadersActs :
         /\ Emit("Responseheaders", idx)
         /\ IF act = "panic" \/ ~f.Response.set
            THEN Panics /\ UNCHANGED <<f, idx>>
            ELSE /\ f' = ApplyAct(f, act)
                 /\ IF f'.Response.Body
                    THEN /\ pc' = AttackNext("handleResponseHeadersAddons", "early")
                         /\ idx' = 1
                         /\ hist' = [hist EXCEPT !.early = "Responseheaders"]
                    ELSE /\ pc' = IF idx < NumAddons THEN pc
                                  ELSE AttackNext("handleResponseHeadersAddons", "ok")
                         /\ idx' = IF idx < NumAddons THEN idx + 1 ELSE 1
                         /\ UNCHANGED hist
    /\ UNCHANGED <<kind, connCtx, inp>>
    /\ UNCHANGED <<rtbVars, connVars, caVars, auxVars>>

\* readResponseBody up to the Response hooks
ReadResponseBody ==
    /\ pc = "readResponseBody"
    /\ \E n \in 0..MaxLen : \E e \in {NoErr} \cup (0..n) :
         LET rb == ReaderToBuffer(NewReader(Body(n), e), inp.limit)
             h  == [hist EXCEPT !.resLen = n, !.streamAtRes = f.Stream]
         IN IF SkipBuffering(f)
            THEN /\ e = NoErr
                 /\ pc' = AttackNext("readResponseBody", "ok")
                 /\ hist' = [h EXCEPT !.resRead = "skipped"]
                 /\ UNCHANGED <<f, trace>>
            ELSE IF rb.err
            THEN /\ Emit("WriteHeader", 502)
                 /\ pc' = AttackNext("readResponseBody", "fail")
                 /\ hist' = [h EXCEPT !.resRead = "error", !.failure = "resbody"]
                 /\ UNCHANGED f
            ELSE IF rb.bufNil
            THEN /\ f' = [f EXCEPT !.Stream = TRUE]
                 /\ pc' = AttackNext("readResponseBody", "ok")
                 /\ hist' = [h EXCEPT !.resRead = "stream", !.flipRes = TRUE]
                 /\ UNCHANGED trace
            ELSE /\ f' = [f EXCEPT !.Response.Body = TRUE]
                 /\ pc' = "Response"
                 /\ hist' = [h EXCEPT !.resRead = "buffered"]
                 /\ UNCHANGED trace
    /\ idx' = 1
    /\ UNCHANGED <<kind, connCtx, inp>>
    /\ UNCHANGED <<rtbVars, connVars, caVars, auxVars>>

\* readResponseBody, the Response hook loop (no short-circuit)
ResponseHook ==
    /\ pc = "Response"
    /\ \E act \in ResponseActs :
         /\ Emit("Response", idx)
         /\ IF act = "panic"
            THEN Panics /\ UNCHANGED idx
            ELSE /\ pc' = IF idx < NumAddons THEN pc
                          ELSE AttackNext("readResponseBody", "ok")
                 /\ idx' = IF idx < NumAddons THEN idx + 1 ELSE 1
                 /\ UNCHANGED hist
    /\ UNCHANGED <<kind, f, connCtx, inp>>
    /\ UNCHANGED <<rtbVars, connVars, caVars, auxVars>>

\* the StreamResponseModifier loop
StreamResponseModifier ==
    /\ pc = "StreamResponseModifier"
    /\ \E act \in ModifierActs :
         /\ Emit("StreamResponseModifier", idx)
         /\ IF act = "panic"
            THEN Panics /\ UNCHANGED idx
            ELSE /\ pc' = IF idx < NumAddons THEN pc
                          ELSE AttackNext("StreamResponseModifier", "ok")
                 /\ idx' = IF idx < NumAddons THEN idx + 1 ELSE 1
                 /\ UNCHANGED hist
    /\ UNCHANGED <<kind, f, connCtx, inp>>
    /\ UNCHANGED <<rtbVars, connVars, caVars, auxVars>>

\* replyToClient: headers, Connection: close when Response.Close, the status
\* line, then the body. Attack returns after it.
ReplyToClient ==
    /\ pc \in {"replyToClient", "replyEarly"}
    /\ IF ~f.Response.set
       THEN Panics /\ UNCHANGED trace       \* response is nil
       ELSE /\ Emit("WriteHeader", 200)
            /\ hist' = [hist EXCEPT !.replied = f.Response.by,
                                    !.connectionClose = f.Response.Close]
            /\ pc' = "return"
    /\ UNCHANGED <<kind, idx, f, connCtx, inp>>
    /\ UNCHANGED <<rtbVars, connVars, caVars, auxVars>>

\* The handler returns or unwinds: the deferred calls run, last registered
\* first. Finish closes the done channel (closing it twice panics); recover
\* stops an unwinding panic. A panic nothing recovered leaves the handler.
RunDeferred ==
    /\ pc \in {"return", "defers"}
    /\ LET d == hist.defers
           top == d[Len(d)]
           rest == SubSeq(d, 1, Len(d) - 1)
           twice == top = "Finish" /\ hist.done >= 1
           pan == IF top = "recover" THEN FALSE ELSE hist.panicking \/ twice
       IN /\ Len(d) > 0
          /\ hist' = [hist EXCEPT !.defers = rest,
                                  !.done = IF top = "Finish" /\ ~twice THEN @ + 1 ELSE @,
                                  !.panicking = pan,
                                  !.panicked = @ \/ twice]
          /\ trace' = IF (top = "recover" /\ ~hist.panicking) \/ twice
                      THEN trace ELSE Append(trace, Ev(top, 0))
          /\ pc' = IF Len(rest) > 0 THEN "defers"
                   ELSE IF pan THEN "crashed" ELSE "returned"
    /\ UNCHANGED <<kind, idx, f, connCtx, inp>>
    /\ UNCHANGED <<rtbVars, connVars, caVars, auxVars>>

\* handleConnect, head: evaluate shouldIntercept into a local (kept in
\* hist.shouldIntercept), create the flow, record Intercept on the connection
\* context, defer Finish
ConnectStart ==
    /\ pc = "start" /\ kind = "connect"
    /\ \E shouldIntercept \in BOOLEAN :
         /\ connCtx' = [connCtx EXCEPT !.Intercept = shouldIntercept]
         /\ hist' = [hist EXCEPT !.defers = ConnectDefers,
                                 !.shouldIntercept = shouldIntercept]
    /\ f' = NewFlow
    /\ pc' = "connectRequestheaders"
    /\ idx' = 1
    /\ UNCHANGED <<kind, inp, trace>>
    /\ UNCHANGED <<rtbVars, connVars, caVars, auxVars>>

\* handleConnect, the Requestheaders loop and the branch on the mode
ConnectRequestheaders ==
    /\ pc = "connectRequestheaders"
    /\ \E act \in ConnectActs :
         /\ Emit("Requestheaders", idx)
         /\ IF act = "panic"
            THEN Panics /\ UNCHANGED <<connCtx, idx>>
            ELSE /\ connCtx' = CASE act = "upstreamCertOff" ->
                                      [connCtx EXCEPT !.UpstreamCert = FALSE]
                                 [] act = "interceptOff" ->
                                      [connCtx EXCEPT !.Intercept = FALSE]
                                 [] OTHER -> connCtx
                 /\ idx' = IF idx < NumAddons THEN idx + 1 ELSE 1
                 /\ pc' = IF idx < NumAddons THEN pc
                          ELSE ModeHandler(ConnectMode(hist.shouldIntercept, connCtx'.UpstreamCert))
                 /\ hist' = IF idx < NumAddons THEN hist
                            ELSE [hist EXCEPT
                                    !.mode = ConnectMode(hist.shouldIntercept, connCtx'.UpstreamCert),
                                    !.certAtBranch = connCtx'.UpstreamCert]
    /\ UNCHANGED <<kind, f, inp>>
    /\ UNCHANGED <<rtbVars, connVars, caVars, auxVars>>

\* directTransfer: dial the upstream through the upstream manager
DirectTransfer ==
    /\ pc = "directTransfer"
    /\ \E res \in {"ok", "err", "autherr"} :
         IF res = "ok"
         THEN /\ Emit("GetUpstreamConn", 0)
              /\ hist' = [hist EXCEPT !.defers = Append(@, "upstreamConn.Close")]
              /\ pc' = "establishConnection"
         ELSE /\ trace' = trace \o <<Ev("GetUpstreamConn", 0),
                                      Ev("WriteHeader", ConnectDialFailureStatus(res))>>
              /\ hist' = [hist EXCEPT !.failure = IF res = "autherr" THEN "dialauth" ELSE "dial"]
              /\ pc' = "return"
    /\ UNCHANGED <<kind, idx, f, connCtx, inp>>
    /\ UNCHANGED <<rtbVars, connVars, caVars, auxVars>>

\* httpsDialFirstAttack: Attacker.HTTPSDial before the tunnel is established
HttpsDialFirstAttack ==
    /\ pc = "httpsDialFirstAttack"
    /\ \E res \in {"ok", "err", "autherr"} :
         IF res = "ok"
         THEN /\ Emit("Dial", 0)
              /\ connCtx' = [connCtx EXCEPT !.ServerConn = "ready"]
              /\ pc' = HttpsDialFirstNext(TRUE)
              /\ UNCHANGED hist
         ELSE /\ trace' = trace \o <<Ev("Dial", 0),
                                      Ev("WriteHeader", ConnectDialFailureStatus(res))>>
              /\ hist' = [hist EXCEPT !.failure = IF res = "autherr" THEN "dialauth" ELSE "dial"]
              /\ pc' = HttpsDialFirstNext(FALSE)
              /\ UNCHANGED connCtx
    /\ UNCHANGED <<kind, idx, f, inp>>
    /\ UNCHANGED <<rtbVars, connVars, caVars, auxVars>>

\* establishConnection: hijack, write 200 Connection Established, set the
\* flow's response; its Responseheaders loop follows
EstablishConnection ==
    /\ pc = "establishConnection"
    /\ \E res \in {"ok", "hijackerr", "writeerr"} :
         CASE res = "ok" ->
                /\ trace' = trace \o <<Ev("Hijack", 0), Ev("Established", 200)>>
                /\ f' = [f EXCEPT !.Response =
                           [set |-> TRUE, by |-> "proxy", Body |-> FALSE, Close |-> FALSE]]
                /\ hist' = IF hist.mode = "direct"
                           THEN [hist EXCEPT !.defers = Append(@, "cconn.Close")] ELSE hist
                /\ pc' = "connectResponseheaders"
           [] res = "hijackerr" ->
                /\ trace' = trace \o <<Ev("Hijack", 0), Ev("WriteHeader", 502)>> \o
                            (IF hist.mode = "dialfirst" THEN <<Ev("serverConn.Close", 0)>> ELSE <<>>)
                /\ hist' = [hist EXCEPT !.failure = "hijack"]
                /\ pc' = "return"
                /\ UNCHANGED f
           [] res = "writeerr" ->
                /\ trace' = trace \o <<Ev("Hijack", 0), Ev("cconn.Close", 0)>> \o
                            (IF hist.mode = "dialfirst" THEN <<Ev("serverConn.Close", 0)>> ELSE <<>>)
                /\ hist' = [hist EXCEPT !.failure = "write"]
                /\ pc' = "return"
                /\ UNCHANGED f
    /\ idx' = 1
    /\ UNCHANGED <<kind, connCtx, inp>>
    /\ UNCHANGED <<rtbVars, connVars, caVars, auxVars>>

\* establishConnection, the Responseheaders loop
ConnectResponseheaders ==
    /\ pc = "connectResponseheaders"
    /\ \E act \in ModifierActs :
         /\ Emit("Responseheaders", idx)
         /\ IF act = "panic"
            THEN Panics /\ UNCHANGED idx
            ELSE /\ idx' = IF idx < NumAddons THEN idx + 1 ELSE 1
                 /\ pc' = IF idx < NumAddons THEN pc
                          ELSE IF hist.mode = "direct" THEN "transfer" ELSE "peek"
                 /\ UNCHANGED hist
    /\ UNCHANGED <<kind, f, connCtx, inp>>
    /\ UNCHANGED <<rtbVars, connVars, caVars, auxVars>>

\* httpsDialFirstAttack / httpsDialLazyAttack after the tunnel is established:
\* peek 3 bytes; not TLS: opaque tunnel (lazy mode dials first); TLS: mark the
\* client connection and hand over to the interception
Peek ==
    /\ pc = "peek"
    /\ \/ /\ trace' = trace \o <<Ev("cconn.Close", 0)>> \o        \* Peek fails
                        (IF hist.mode = "dialfirst" THEN <<Ev("serverConn.Close", 0)>> ELSE <<>>)
          /\ pc' = "return"
          /\ UNCHANGED <<connCtx, hist>>
       \/ \E buf \in PeekInputs :
            /\ hist' = [hist EXCEPT !.peek = buf]
            /\ IF IsTLS(buf)
               THEN /\ connCtx' = [connCtx EXCEPT !.TLS = TRUE]
                    /\ pc' = "intercept"
                    /\ UNCHANGED trace
               ELSE \E dialok \in BOOLEAN :
                      /\ (hist.mode = "dialfirst" => dialok)
                      /\ IF dialok
                         THEN /\ trace' = IF hist.mode = "lazy"
                                          THEN Append(trace, Ev("Dial", 0)) ELSE trace
                              /\ connCtx' = [connCtx EXCEPT !.ServerConn = "ready"]
                              /\ pc' = "transfer"
                         ELSE /\ trace' = trace \o <<Ev("Dial", 0), Ev("cconn.Close", 0)>>
                              /\ pc' = "return"
                              /\ UNCHANGED connCtx
    /\ UNCHANGED <<kind, idx, f, inp>>
    /\ UNCHANGED <<rtbVars, connVars, caVars, auxVars>>

\* transfer: the bidirectional copy runs until a side closes; then both
\* connections get closed and the handler returns
Transfer ==
    /\ pc = "transfer"
    /\ trace' = IF hist.mode = "direct" THEN Append(trace, Ev("transfer", 0))
                ELSE trace \o <<Ev("transfer", 0), Ev("cconn.Close", 0), Ev("serverConn.Close", 0)>>
    /\ pc' = "return"
    /\ UNCHANGED <<kind, idx, f, connCtx, inp, hist>>
    /\ UNCHANGED <<rtbVars, connVars, caVars, auxVars>>

\* HTTPSTLSDial (dial-first) / HTTPSLazyAttack (lazy): the handshakes fail and
\* the sockets get closed, or the connection is handed to serveConn
Intercept ==
    /\ pc = "intercept"
    /\ \E res \in {"ok", "fail", "failAfterCert"} :
         CASE res = "ok" ->
                /\ trace' = trace \o <<Ev("GetCert", 0), Ev("serveConn", 0)>>
                /\ connCtx' = IF hist.mode = "lazy"
                              THEN [connCtx EXCEPT !.DialFn = "https"] ELSE connCtx
           [] OTHER ->
                /\ trace' = trace \o
                            (IF res = "failAfterCert" THEN <<Ev("GetCert", 0)>> ELSE <<>>) \o
                            <<Ev("cconn.Close", 0)>> \o
                            (IF hist.mode = "dialfirst" THEN <<Ev("serverConn.Close", 0)>> ELSE <<>>)
                /\ UNCHANGED connCtx
    /\ pc' = "return"
    /\ UNCHANGED <<kind, idx, f, inp, hist>>
    /\ UNCHANGED <<rtbVars, connVars, caVars, auxVars>>

NextFlow ==
    \/ AttackStart
    \/ HandleRequestAddons
    \/ ReadRequestBody
    \/ RequestHook
    \/ StreamRequestModifier
    \/ ExecuteProxyRequest
    \/ UpstreamDo
    \/ HandleResponseHeadersAddons
    \/ ReadResponseBody
    \/ ResponseHook
    \/ StreamResponseModifier
    \/ ReplyToClient
    \/ RunDeferred
    \/ ConnectStart
    \/ ConnectRequestheaders
    \/ DirectTransfer
    \/ HttpsDialFirstAttack
    \/ EstablishConnection
    \/ ConnectResponseheaders
    \/ Peek
    \/ Transfer
    \/ Intercept

\* ------------------------------------------------------------------------
\* One client connection: the wrappers and the dial sites
\* ------------------------------------------------------------------------
\* goroutines other than the connection's handler that close connections:
\* the upstream transport's loops, the tunnel copy loops, server.Close()
Closers == {"t1", "t2"}

CC == Ev("ClientConnected", 0)
CD == Ev("ClientDisconnected", 0)
SC(k) == Ev("ServerConnected", k)
SD(k) == Ev("ServerDisconnected", k)
\* the Requestheaders hooks of the n-th flow of the connection
RH(n) == Ev("Requestheaders", n)
TLSE(k) == Ev("TLSEstablishedServer", k)
\* 200 Connection Established written for the CONNECT that is flow n
Established(n) == Ev("Established", n)
\* the client-side handshake asks the CA for the certificate it presents
GetCert == Ev("GetCert", 0)

\* what the dial sites deliver once connCtx.ServerConn is set
ServerConnectedEvents_Silent(k) == <<>>

ServerConnectedEvents(k) == <<SC(k)>>

\* what a successful serverTLSHandshake delivers
ServerTLSHandshakeEvents_Silent(k) == <<>>

ServerTLSHandshakeEvents(k) == <<TLSE(k)>>

\* entry.ServeHTTP, plain request: InitHTTPDialFn only stores the dial
\* function; the handler goes on into Attack
InitHTTPDialFnNext_Eager == "dialing"

InitHTTPDialFnNext == "attack"

\* the statements of WrapClientConn.Close in program order
WrapClientConnCloseOrder == <<"lock", "crit", "chan", "notify", "server", "ret">>

\* the statements of WrapServerConn.Close in program order
WrapServerConnCloseOrder_ClientFirst == <<"lock", "crit", "client", "notify", "ret">>

WrapServerConnCloseOrder == <<"lock", "crit", "notify", "client", "ret">>

CloseOrder(fn) == IF fn = "client" THEN WrapClientConnCloseOrder ELSE WrapServerConnCloseOrder
NextStmt(fn, s) == CloseOrder(fn)[Pos(CloseOrder(fn), s) + 1]

\* the guard at the head of both Close methods: if c.closed { return c.closeErr }
AlreadyClosed_Never(w) == FALSE

AlreadyClosed(w) == w.closed

\* where both Close methods release closeMu: right after closing the socket,
\* before the notification and the cascade to the other wrapper
CloseUnlockAt_Ret == "ret"

CloseUnlockAt == "crit"

NewWrapServerConn == [closed |-> FALSE, mu |-> "free", rawCloses |-> 0]

Frame(fn, k, cause) == [fn |-> fn, k |-> k, pc |-> "lock", cause |-> cause, first |-> FALSE]

Top(p) == stack[p][Len(stack[p])]
SetTop(p, fr) == [stack EXCEPT ![p] = [@ EXCEPT ![Len(@)] = fr]]
Pop(p) == [stack EXCEPT ![p] = SubSeq(@, 1, Len(@) - 1)]
At(p, fn, s) == Len(stack[p]) > 0 /\ Top(p).fn = fn /\ Top(p).pc = s

\* wrapListener.Accept: wrap the socket, create the connection context, deliver
\* ClientConnected
Accept ==
    /\ handler.pc = "accept"
    /\ accepted' = TRUE
    /\ events' = Append(events, CC)
    /\ handler' = [handler EXCEPT !.pc = "entry"]
    /\ UNCHANGED <<wcc, wsc, cc, stack, ghost>>
    /\ UNCHANGED <<rtbVars, flowVars, caVars, auxVars>>

\* entry.ServeHTTP: the next request read from the client connection is a
\* plain proxy request (InitHTTPDialFn, then Attack) or a CONNECT
\* (handleConnect picks the mode; the opaque tunnel dials an unwrapped upstream)
EntryServeHTTP ==
    /\ handler.pc = "entry"
    /\ ~wcc.closed /\ ~wcc.readClosed
    /\ handler.reqs < MaxRequests
    /\ \E r \in {"plain", "direct", "directfail", "dialfirst", "lazy"} :
         /\ handler' = [handler EXCEPT
                          !.reqs = @ + 1,
                          !.via = "entry",
                          !.mode = r,
                          !.pc = CASE r = "plain"      -> InitHTTPDialFnNext
                                   [] r = "direct"     -> "transfer"
                                   [] r = "directfail" -> "entry"
                                   [] r = "dialfirst"  -> "httpsDial"
                                   [] r = "lazy"       -> "peek"]
         /\ cc' = IF r = "plain" THEN [cc EXCEPT !.DialFn = "http"] ELSE cc
         /\ events' = events \o <<RH(handler.reqs + 1)>> \o
                       (IF r \in {"direct", "lazy"} THEN <<Established(handler.reqs + 1)>>
                        ELSE <<>>)
         /\ ghost' = [ghost EXCEPT !.flows =
                        Append(@, IF r = "plain" THEN "plain" ELSE "connect")]
    /\ UNCHANGED <<accepted, wcc, wsc, stack>>
    /\ UNCHANGED <<rtbVars, flowVars, caVars, auxVars>>

\* Attacker.HTTPSDial (from httpsDialFirstAttack, and from httpsDialLazyAttack
\* for a client that does not speak TLS): on success a new server connection
\* with a new wrapper replaces connCtx.ServerConn and ServerConnected is delivered
HTTPSDial ==
    /\ handler.pc \in {"httpsDial", "lazyPlainDial"}
    /\ \E ok \in BOOLEAN :
         IF ok /\ Len(wsc) < MaxDials
         THEN /\ wsc' = Append(wsc, NewWrapServerConn)
              /\ cc' = [cc EXCEPT !.ServerConn = Len(wsc) + 1]
              /\ events' = events \o ServerConnectedEvents(Len(wsc) + 1) \o
                            (IF handler.pc = "httpsDial" THEN <<Established(handler.reqs)>>
                             ELSE <<>>)
              /\ ghost' = [ghost EXCEPT !.serverClosedBy = Append(@, "none"),
                                        !.scFlow = Append(@, handler.reqs)]
              /\ handler' = [handler EXCEPT
                               !.pc = IF handler.pc = "httpsDial" THEN "peek" ELSE "transfer"]
         ELSE /\ handler' = [handler EXCEPT
                               !.pc = IF handler.pc = "httpsDial" THEN "entry" ELSE "done"]
              /\ UNCHANGED <<wsc, cc, events, ghost>>
    /\ UNCHANGED <<accepted, wcc, stack>>
    /\ UNCHANGED <<rtbVars, flowVars, caVars, auxVars>>

\* httpsDialFirstAttack / httpsDialLazyAttack once the tunnel is established:
\* peek; a TLS client is marked TLS and intercepted (the lazy mode installs
\* the HTTPS dial function), anything else becomes an opaque tunnel or ends
PeekClient ==
    /\ handler.pc = "peek"
    /\ \E res \in {"tls", "tlsfail", "tlsfailLate", "plain", "fail"} :
         /\ (res = "tlsfailLate" => handler.mode = "dialfirst")
         /\ cc' = CASE res = "tls" /\ handler.mode = "lazy" ->
                         [cc EXCEPT !.TLS = TRUE, !.DialFn = "https"]
                    [] res \in {"tls", "tlsfail", "tlsfailLate"} -> [cc EXCEPT !.TLS = TRUE]
                    [] OTHER -> cc
         /\ events' = CASE res \in {"tls", "tlsfailLate"} /\ handler.mode = "dialfirst" ->
                             events \o ServerTLSHandshakeEvents(cc.ServerConn) \o <<GetCert>>
                        [] res = "tls" /\ handler.mode = "lazy" -> Append(events, GetCert)
                        [] OTHER -> events
         /\ handler' = [handler EXCEPT
                          !.pc = CASE res = "tls"  -> "tunnel"
                                   [] res \in {"fail", "tlsfail", "tlsfailLate"} -> "done"
                                   [] res = "plain" ->
                                        IF handler.mode = "lazy" THEN "lazyPlainDial"
                                        ELSE "transfer"]
    /\ UNCHANGED <<accepted, wcc, wsc, stack, ghost>>
    /\ UNCHANGED <<rtbVars, flowVars, caVars, auxVars>>

\* Attacker.ServeHTTP: a request decrypted from the intercepted tunnel
TunnelServeHTTP ==
    /\ handler.pc = "tunnel"
    /\ ~wcc.closed
    /\ handler.reqs < MaxRequests
    /\ handler' = [handler EXCEPT !.reqs = @ + 1, !.via = "tunnel", !.pc = "attack"]
    /\ events' = Append(events, RH(handler.reqs + 1))
    /\ ghost' = [ghost EXCEPT !.flows = Append(@, "tunnel")]
    /\ UNCHANGED <<accepted, wcc, wsc, cc, stack>>
    /\ UNCHANGED <<rtbVars, flowVars, caVars, auxVars>>

\* Attack up to executeProxyRequest's choice: the flow ends before the
\* upstream (addon reply, body error) or uses the main client; or the
\* connection has no server connection and a dial function, which is invoked;
\* or the request goes out on the existing server connection
ExecuteRequest ==
    /\ handler.pc = "attack"
    /\ \/ /\ handler' = [handler EXCEPT !.pc = handler.via]
          /\ UNCHANGED ghost
       \/ /\ cc.ServerConn = 0 /\ cc.DialFn # "nil"
          /\ handler' = [handler EXCEPT !.pc = "dialing"]
          /\ ghost' = [ghost EXCEPT !.reached = @ \cup {handler.reqs}]
       \/ /\ ~(cc.ServerConn = 0 /\ cc.DialFn # "nil")
          /\ handler' = [handler EXCEPT !.pc = "do"]
          /\ ghost' = [ghost EXCEPT !.reached = @ \cup {handler.reqs}]
    /\ UNCHANGED <<accepted, events, wcc, wsc, cc, stack>>
    /\ UNCHANGED <<rtbVars, flowVars, caVars, auxVars>>

\* the dial function installed by InitHTTPDialFn / InitHTTPSDialFn returns:
\* on success connCtx.ServerConn is set to a new wrapped connection and
\* ServerConnected is delivered
DialFnReturn ==
    /\ handler.pc = "dialing"
    /\ \E res \in {"ok", "err", "tlsfail"} :
         /\ (res = "tlsfail" => cc.DialFn = "https")
         /\ IF res # "err" /\ Len(wsc) < MaxDials
            THEN /\ wsc' = Append(wsc, NewWrapServerConn)
                 /\ cc' = [cc EXCEPT !.ServerConn = Len(wsc) + 1]
                 /\ events' = events \o ServerConnectedEvents(Len(wsc) + 1) \o
                               (IF res = "ok" /\ cc.DialFn = "https"
                                THEN ServerTLSHandshakeEvents(Len(wsc) + 1) ELSE <<>>)
                 /\ ghost' = [ghost EXCEPT !.serverClosedBy = Append(@, "none"),
                                           !.scFlow = Append(@, handler.reqs)]
                 /\ handler' = [handler EXCEPT
                                  !.pc = IF res = "ok" THEN "do" ELSE handler.via]
            ELSE /\ handler' = [handler EXCEPT !.pc = handler.via]
                 /\ UNCHANGED <<wsc, cc, events, ghost>>
    /\ UNCHANGED <<accepted, wcc, stack>>
    /\ UNCHANGED <<rtbVars, flowVars, caVars, auxVars>>

\* the upstream exchange ends; a response marked close sets closeAfterResponse
UpstreamExchange ==
    /\ handler.pc = "do"
    /\ \E close \in BOOLEAN :
         cc' = [cc EXCEPT !.CloseAfterResponse = @ \/ close]
    /\ handler' = [handler EXCEPT !.pc = handler.via]
    /\ UNCHANGED <<accepted, events, wcc, wsc, stack, ghost>>
    /\ UNCHANGED <<rtbVars, flowVars, caVars, auxVars>>

\* the opaque tunnel's copy ends and its handler returns
TransferEnd ==
    /\ handler.pc = "transfer"
    /\ handler' = [handler EXCEPT !.pc = "done"]
    /\ UNCHANGED <<accepted, events, wcc, wsc, cc, stack, ghost>>
    /\ UNCHANGED <<rtbVars, flowVars, caVars, auxVars>>

\* some goroutine calls Close on the client wrapper. The call counts as caused
\* by the server side when the server wrapper has already half-closed the
\* client socket, so that the read of the serving goroutine ends with EOF.
CallClientClose(p) ==
    /\ accepted
    /\ stack[p] = <<>>
    /\ ghost.calls < MaxCalls
    /\ stack' = [stack EXCEPT ![p] =
                   <<Frame("client", 0, IF wcc.readClosed THEN "eof" ELSE "top")>>]
    /\ ghost' = [ghost EXCEPT !.calls = @ + 1]
    /\ UNCHANGED <<accepted, events, wcc, wsc, cc, handler>>
    /\ UNCHANGED <<rtbVars, flowVars, caVars, auxVars>>

\* some goroutine calls Close on a server wrapper
CallServerClose(p) ==
    /\ stack[p] = <<>>
    /\ ghost.calls < MaxCalls
    /\ \E k \in 1..Len(wsc) :
         stack' = [stack EXCEPT ![p] = <<Frame("server", k, "top")>>]
    /\ ghost' = [ghost EXCEPT !.calls = @ + 1]
    /\ UNCHANGED <<accepted, events, wcc, wsc, cc, handler>>
    /\ UNCHANGED <<rtbVars, flowVars, caVars, auxVars>>

\* WrapClientConn.Close: c.closeMu.Lock()
ClientCloseLock(p) ==
    /\ At(p, "client", "lock")
    /\ wcc.mu = "free"
    /\ wcc' = [wcc EXCEPT !.mu = p]
    /\ stack' = SetTop(p, [Top(p) EXCEPT !.pc = NextStmt("client", "lock")])
    /\ UNCHANGED <<accepted, events, wsc, cc, handler, ghost>>
    /\ UNCHANGED <<rtbVars, flowVars, caVars, auxVars>>

\* WrapClientConn.Close under the mutex: return the saved error if already
\* closed; else mark closed, close the socket, unlock
ClientCloseCrit(p) ==
    /\ At(p, "client", "crit")
    /\ IF AlreadyClosed(wcc)
       THEN /\ wcc' = [wcc EXCEPT !.mu = "free"]
            /\ stack' = Pop(p)
            /\ ghost' = [ghost EXCEPT !.clientReturns = @ + 1]
       ELSE /\ wcc' = [wcc EXCEPT !.closed = TRUE, !.rawCloses = @ + 1,
                                  !.mu = IF CloseUnlockAt = "crit" THEN "free" ELSE p]
            /\ stack' = SetTop(p, [Top(p) EXCEPT !.pc = NextStmt("client", "crit"),
                                                 !.first = TRUE])
            /\ ghost' = [ghost EXCEPT !.clientClosedBy =
                           IF @ = "none" THEN Top(p).cause ELSE @]
    /\ UNCHANGED <<accepted, events, wsc, cc, handler>>
    /\ UNCHANGED <<rtbVars, flowVars, caVars, auxVars>>

\* WrapClientConn.Close: close(c.CloseChan)
ClientCloseChan(p) ==
    /\ At(p, "client", "chan")
    /\ wcc' = [wcc EXCEPT !.chanCloses = @ + 1]
    /\ stack' = SetTop(p, [Top(p) EXCEPT !.pc = NextStmt("client", "chan")])
    /\ UNCHANGED <<accepted, events, wsc, cc, handler, ghost>>
    /\ UNCHANGED <<rtbVars, flowVars, caVars, auxVars>>

\* WrapClientConn.Close: NotifyClientDisconnected
ClientCloseNotify(p) ==
    /\ At(p, "client", "notify")
    /\ events' = Append(events, CD)
    /\ stack' = SetTop(p, [Top(p) EXCEPT !.pc = NextStmt("client", "notify")])
    /\ UNCHANGED <<accepted, wcc, wsc, cc, handler, ghost>>
    /\ UNCHANGED <<rtbVars, flowVars, caVars, auxVars>>

\* WrapClientConn.Close: close the server connection the context holds now
ClientCloseServer(p) ==
    /\ At(p, "client", "server")
    /\ LET me == [Top(p) EXCEPT !.pc = NextStmt("client", "server")]
       IN stack' = IF cc.ServerConn # 0
                   THEN [SetTop(p, me) EXCEPT ![p] = Append(@, Frame("server", cc.ServerConn, "cascade"))]
                   ELSE SetTop(p, me)
    /\ UNCHANGED <<accepted, events, wcc, wsc, cc, handler, ghost>>
    /\ UNCHANGED <<rtbVars, flowVars, caVars, auxVars>>

\* WrapClientConn.Close returns
ClientCloseRet(p) ==
    /\ At(p, "client", "ret")
    /\ stack' = Pop(p)
    /\ ghost' = [ghost EXCEPT !.clientReturns = @ + 1,
                              !.closerDone = @ \/ Top(p).first]
    /\ wcc' = IF CloseUnlockAt = "ret" THEN [wcc EXCEPT !.mu = "free"] ELSE wcc
    /\ UNCHANGED <<accepted, events, wsc, cc, handler>>
    /\ UNCHANGED <<rtbVars, flowVars, caVars, auxVars>>

\* WrapServerConn.Close: c.closeMu.Lock()
ServerCloseLock(p) ==
    /\ At(p, "server", "lock")
    /\ wsc[Top(p).k].mu = "free"
    /\ wsc' = [wsc EXCEPT ![Top(p).k].mu = p]
    /\ stack' = SetTop(p, [Top(p) EXCEPT !.pc = NextStmt("server", "lock")])
    /\ UNCHANGED <<accepted, events, wcc, cc, handler, ghost>>
    /\ UNCHANGED <<rtbVars, flowVars, caVars, auxVars>>

\* WrapServerConn.Close under the mutex
ServerCloseCrit(p) ==
    /\ At(p, "server", "crit")
    /\ LET k == Top(p).k
       IN IF AlreadyClosed(wsc[k])
          THEN /\ wsc' = [wsc EXCEPT ![k].mu = "free"]
               /\ stack' = Pop(p)
               /\ UNCHANGED ghost
          ELSE /\ wsc' = [wsc EXCEPT ![k].closed = TRUE, ![k].rawCloses = @ + 1,
                                     ![k].mu = IF CloseUnlockAt = "crit" THEN "free" ELSE p]
               /\ stack' = SetTop(p, [Top(p) EXCEPT !.pc = NextStmt("server", "crit"),
                                                    !.first = TRUE])
               /\ ghost' = [ghost EXCEPT !.serverClosedBy[k] =
                              IF @ = "none" THEN Top(p).cause ELSE @]
    /\ UNCHANGED <<accepted, events, wcc, cc, handler>>
    /\ UNCHANGED <<rtbVars, flowVars, caVars, auxVars>>

\* WrapServerConn.Close: NotifyServerDisconnected
ServerCloseNotify(p) ==
    /\ At(p, "server", "notify")
    /\ events' = Append(events, SD(Top(p).k))
    /\ stack' = SetTop(p, [Top(p) EXCEPT !.pc = NextStmt("server", "notify")])
    /\ UNCHANGED <<accepted, wcc, wsc, cc, handler, ghost>>
    /\ UNCHANGED <<rtbVars, flowVars, caVars, auxVars>>

\* WrapServerConn.Close after the notification: what it does to the client.
\* A client that is not TLS gets the read side of its TCP socket closed
\* (the accepted socket is a *net.TCPConn inside the WrapClientConn); a TLS
\* client is closed unless the response in flight already closes it
ServerCloseClientEffect_IgnoreCloseAfterResponse(tls, closeAfterResponse) ==
    IF ~tls THEN "CloseRead" ELSE "Close"

ServerCloseClientEffect(tls, closeAfterResponse) ==
    IF ~tls THEN "CloseRead"
    ELSE IF ~closeAfterResponse THEN "Close"
    ELSE "none"

\* WrapServerConn.Close: the statements after NotifyServerDisconnected
ServerCloseClient(p) ==
    /\ At(p, "server", "client")
    /\ LET me == [Top(p) EXCEPT !.pc = NextStmt("server", "client")]
           effect == ServerCloseClientEffect(cc.TLS, cc.CloseAfterResponse)
       IN IF effect = "CloseRead"
          THEN /\ wcc' = [wcc EXCEPT !.readClosed = TRUE]
               /\ stack' = SetTop(p, me)
               /\ UNCHANGED ghost
          ELSE IF effect = "Close"
          THEN /\ stack' = [SetTop(p, me) EXCEPT ![p] = Append(@, Frame("client", 0, "cascade"))]
               /\ ghost' = [ghost EXCEPT !.reentered = TRUE]
               /\ UNCHANGED wcc
          ELSE /\ stack' = SetTop(p, me)
               /\ UNCHANGED <<wcc, ghost>>
    /\ UNCHANGED <<accepted, events, wsc, cc, handler>>
    /\ UNCHANGED <<rtbVars, flowVars, caVars, auxVars>>

\* WrapServerConn.Close returns
ServerCloseRet(p) ==
    /\ At(p, "server", "ret")
    /\ stack' = Pop(p)
    /\ wsc' = IF CloseUnlockAt = "ret" THEN [wsc EXCEPT ![Top(p).k].mu = "free"] ELSE wsc
    /\ UNCHANGED <<accepted, events, wcc, cc, handler, ghost>>
    /\ UNCHANGED <<rtbVars, flowVars, caVars, auxVars>>

NextConn ==
    \/ Accept
    \/ EntryServeHTTP
    \/ HTTPSDial
    \/ PeekClient
    \/ TunnelServeHTTP
    \/ ExecuteRequest
    \/ DialFnReturn
    \/ UpstreamExchange
    \/ TransferEnd
    \/ \E p \in Closers : CallClientClose(p)
    \/ \E p \in Closers : CallServerClose(p)
    \/ \E p \in Closers : ClientCloseLock(p)
    \/ \E p \in Closers : ClientCloseCrit(p)
    \/ \E p \in Closers : ClientCloseChan(p)
    \/ \E p \in Closers : ClientCloseNotify(p)
    \/ \E p \in Closers : ClientCloseServer(p)
    \/ \E p \in Closers : ClientCloseRet(p)
    \/ \E p \in Closers : ServerCloseLock(p)
    \/ \E p \in Closers : ServerCloseCrit(p)
    \/ \E p \in Closers : ServerCloseNotify(p)
    \/ \E p \in Closers : ServerCloseClient(p)
    \/ \E p \in Closers : ServerCloseRet(p)


\* ------------------------------------------------------------------------
\* TrustedCA.GetCert: the certificate cache and the single-flight group
\* ------------------------------------------------------------------------
\* goroutines calling GetCert, each once
Callers == 1..NumCallers

\* the common names asked for
CommonNames == {"a.example", "b.example"}

CAIdle == [cache |-> <<>>, group |-> <<>>, calls |-> <<>>, g |-> <<>>, issued |-> <<>>]

NewCall(c) == [cn |-> c, val |-> 0, err |-> FALSE, done |-> FALSE]

\* certificates issued so far for common name c
IssuedFor(c) == {i \in 1..Len(ca_issued) : ca_issued[i] = c}

\* a goroutine calls GetCert(commonName)
GetCertCall(p) ==
    /\ ca_g[p].pc = "idle"
    /\ \E c \in CommonNames :
         ca_g' = [ca_g EXCEPT ![p] = [@ EXCEPT !.pc = "lookup", !.cn = c]]
    /\ UNCHANGED <<ca_cache, ca_group, ca_calls, ca_issued>>
    /\ UNCHANGED <<rtbVars, flowVars, connVars, auxVars>>

\* GetCert: under cacheMu, look the name up in the cache; a hit returns the
\* cached certificate, a miss goes on to the single-flight group
CacheGet(p) ==
    /\ ca_g[p].pc = "lookup"
    /\ ca_g' = [ca_g EXCEPT ![p] =
                  IF ca_cache[ca_g[p].cn] # 0
                  THEN [@ EXCEPT !.pc = "returned", !.ret = ca_cache[ca_g[p].cn]]
                  ELSE [@ EXCEPT !.pc = "do"]]
    /\ UNCHANGED <<ca_cache, ca_group, ca_calls, ca_issued>>
    /\ UNCHANGED <<rtbVars, flowVars, connVars, auxVars>>

\* singleflight.Group.Do, head: under the group's mutex, join the call in
\* flight for the key or register a new one
GroupDo(p) ==
    /\ ca_g[p].pc = "do"
    /\ LET c == ca_g[p].cn
       IN IF ca_group[c] # 0
          THEN /\ ca_g' = [ca_g EXCEPT ![p] = [@ EXCEPT !.pc = "wait", !.call = ca_group[c]]]
               /\ UNCHANGED <<ca_group, ca_calls>>
          ELSE /\ ca_calls' = Append(ca_calls, NewCall(c))
               /\ ca_group' = [ca_group EXCEPT ![c] = Len(ca_calls) + 1]
               /\ ca_g' = [ca_g EXCEPT ![p] = [@ EXCEPT !.pc = "load", !.call = Len(ca_calls) + 1]]
    /\ UNCHANGED <<ca_cache, ca_issued>>
    /\ UNCHANGED <<rtbVars, flowVars, connVars, auxVars>>

\* the function handed to Do: loadCert issues a certificate or fails
LoadCert(p) ==
    /\ ca_g[p].pc = "load"
    /\ \E ok \in BOOLEAN :
         IF ok
         THEN /\ ca_issued' = Append(ca_issued, ca_g[p].cn)
              /\ ca_calls' = [ca_calls EXCEPT ![ca_g[p].call].val = Len(ca_issued) + 1]
              /\ ca_g' = [ca_g EXCEPT ![p] = [@ EXCEPT !.pc = "add"]]
         ELSE /\ ca_calls' = [ca_calls EXCEPT ![ca_g[p].call].err = TRUE]
              /\ ca_g' = [ca_g EXCEPT ![p] = [@ EXCEPT !.pc = "done"]]
              /\ UNCHANGED ca_issued
    /\ UNCHANGED <<ca_cache, ca_group>>
    /\ UNCHANGED <<rtbVars, flowVars, connVars, auxVars>>

\* the function handed to Do: under cacheMu, store the certificate
CacheAdd(p) ==
    /\ ca_g[p].pc = "add"
    /\ ca_cache' = [ca_cache EXCEPT ![ca_g[p].cn] = ca_calls[ca_g[p].call].val]
    /\ ca_g' = [ca_g EXCEPT ![p] = [@ EXCEPT !.pc = "done"]]
    /\ UNCHANGED <<ca_group, ca_calls, ca_issued>>
    /\ UNCHANGED <<rtbVars, flowVars, connVars, auxVars>>

\* singleflight.Group.Do, tail: release the waiters of the call
GroupDone(p) ==
    /\ ca_g[p].pc = "done"
    /\ ca_calls' = [ca_calls EXCEPT ![ca_g[p].call].done = TRUE]
    /\ ca_g' = [ca_g EXCEPT ![p] = [@ EXCEPT !.pc = "delete"]]
    /\ UNCHANGED <<ca_cache, ca_group, ca_issued>>
    /\ UNCHANGED <<rtbVars, flowVars, connVars, auxVars>>

\* singleflight.Group.Do, tail: under the group's mutex, forget the key;
\* GetCert returns the call's result
GroupDelete(p) ==
    /\ ca_g[p].pc = "delete"
    /\ ca_group' = [ca_group EXCEPT ![ca_g[p].cn] = 0]
    /\ ca_g' = [ca_g EXCEPT ![p] =
                  [@ EXCEPT !.pc = "returned",
                            !.ret = IF ca_calls[ca_g[p].call].err THEN 0 ELSE ca_calls[ca_g[p].call].val,
                            !.err = ca_calls[ca_g[p].call].err]]
    /\ UNCHANGED <<ca_cache, ca_calls, ca_issued>>
    /\ UNCHANGED <<rtbVars, flowVars, connVars, auxVars>>

\* singleflight.Group.Do for a joined call: wait until it is done, take its result
GroupWait(p) ==
    /\ ca_g[p].pc = "wait"
    /\ ca_calls[ca_g[p].call].done
    /\ ca_g' = [ca_g EXCEPT ![p] =
                  [@ EXCEPT !.pc = "returned",
                            !.ret = IF ca_calls[ca_g[p].call].err THEN 0 ELSE ca_calls[ca_g[p].call].val,
                            !.err = ca_calls[ca_g[p].call].err]]
    /\ UNCHANGED <<ca_cache, ca_group, ca_calls, ca_issued>>
    /\ UNCHANGED <<rtbVars, flowVars, connVars, auxVars>>

NextCA ==
    \/ \E p \in Callers : GetCertCall(p)
    \/ \E p \in Callers : CacheGet(p)
    \/ \E p \in Callers : GroupDo(p)
    \/ \E p \in Callers : LoadCert(p)
    \/ \E p \in Callers : CacheAdd(p)
    \/ \E p \in Callers : GroupDone(p)
    \/ \E p \in Callers : GroupDelete(p)
    \/ \E p \in Callers : GroupWait(p)

\* ------------------------------------------------------------------------
\* addonregistry.Registry: Add, Get and a dispatch loop over Get's result
\* ------------------------------------------------------------------------
\* goroutines calling AddAddon, one addon each, and goroutines at a dispatch
\* site (for _, addon := range registry.Get() { addon.Hook(...) })
Adders == {<<"add", i>> : i \in 1..NumAddons}
Users == {<<"use", i>> : i \in 1..NumUsers}

\* the elements a slice value (backing array, length) shows
View(heap, sl) == SubSeq(heap[sl.arr], 1, sl.len)

\* append(r.addons, addon): write in place while the backing array has room,
\* else allocate a larger array and copy
GoAppend_Prepend(heap, sl, x) ==
    [heap |-> Append(heap, <<x>> \o View(heap, sl)),
     sl |-> [arr |-> Len(heap) + 1, len |-> sl.len + 1]]

GoAppend(heap, sl, x) ==
    LET cap == Len(heap[sl.arr])
        room == IF cap = 0 THEN 1 ELSE cap
    IN IF sl.len < cap
       THEN [heap |-> [heap EXCEPT ![sl.arr][sl.len + 1] = x],
             sl |-> [sl EXCEPT !.len = @ + 1]]
       ELSE [heap |-> Append(heap, View(heap, sl) \o <<x>> \o [k \in 1..(room - 1) |-> 0]),
             sl |-> [arr |-> Len(heap) + 1, len |-> sl.len + 1]]

\* Get's result: a fresh array holding a copy of the registry's elements
GetResult_NoCopy(heap, sl) == [heap |-> heap, sl |-> sl]

GetResult(heap, sl) ==
    [heap |-> Append(heap, View(heap, sl)), sl |-> [arr |-> Len(heap) + 1, len |-> sl.len]]

\* Registry.Add: mu.Lock, append, deferred mu.Unlock
RegistryAdd(p) ==
    /\ p \in Adders
    /\ \/ /\ reg.g[p].pc = "idle" /\ reg.writer = <<>> /\ reg.readers = {}
          /\ reg' = [reg EXCEPT !.writer = p, !.g[p].pc = "locked"]
       \/ /\ reg.g[p].pc = "locked"
          /\ LET r == GoAppend(reg.heap, reg.addons, p[2])
             IN reg' = [reg EXCEPT !.heap = r.heap, !.addons = r.sl,
                                   !.added = Append(@, p[2]), !.g[p].pc = "appended"]
       \/ /\ reg.g[p].pc = "appended"
          /\ reg' = [reg EXCEPT !.writer = <<>>, !.g[p].pc = "done"]
    /\ UNCHANGED <<srv, hs, tr, h2, fwd, sp, up>>
    /\ UNCHANGED <<rtbVars, flowVars, connVars, caVars>>

\* Registry.Get: mu.RLock, make and copy, deferred mu.RUnlock
RegistryGet(p) ==
    /\ p \in Users
    /\ \/ /\ reg.g[p].pc = "idle" /\ reg.writer = <<>>
          /\ reg' = [reg EXCEPT !.readers = @ \cup {p}, !.g[p].pc = "rlocked"]
       \/ /\ reg.g[p].pc = "rlocked"
          /\ LET r == GetResult(reg.heap, reg.addons)
             IN reg' = [reg EXCEPT !.heap = r.heap, !.g[p].snap = r.sl,
                                   !.g[p].got = View(r.heap, r.sl), !.g[p].pc = "copied"]
       \/ /\ reg.g[p].pc = "copied"
          /\ reg' = [reg EXCEPT !.readers = @ \ {p}, !.g[p].pc = "returned"]
    /\ UNCHANGED <<srv, hs, tr, h2, fwd, sp, up>>
    /\ UNCHANGED <<rtbVars, flowVars, connVars, caVars>>

\* the dispatch loop: range over the slice Get returned, invoking each addon
Dispatch(p) ==
    /\ p \in Users
    /\ reg.g[p].pc \in {"returned", "dispatch"}
    /\ LET u == reg.g[p]
       IN IF u.i < u.snap.len
          THEN reg' = [reg EXCEPT !.g[p].calls = Append(@, reg.heap[u.snap.arr][u.i + 1]),
                                  !.g[p].i = @ + 1, !.g[p].pc = "dispatch"]
          ELSE reg' = [reg EXCEPT !.g[p].pc = "done"]
    /\ UNCHANGED <<srv, hs, tr, h2, fwd, sp, up>>
    /\ UNCHANGED <<rtbVars, flowVars, connVars, caVars>>

\* a caller overwrites an element of the slice Get returned
ModifyReturned(p) ==
    /\ p \in Users
    /\ reg.g[p].pc = "returned"
    /\ \E k \in 1..reg.g[p].snap.len :
         reg' = [reg EXCEPT !.heap[reg.g[p].snap.arr][k] = 0, !.g[p].pc = "modified"]
    /\ UNCHANGED <<srv, hs, tr, h2, fwd, sp, up>>
    /\ UNCHANGED <<rtbVars, flowVars, connVars, caVars>>

NextRegistry ==
    \/ \E p \in Adders : RegistryAdd(p)
    \/ \E p \in Users : RegistryGet(p)
    \/ \E p \in Users : Dispatch(p)
    \/ \E p \in Users : ModifyReturned(p)

\* ------------------------------------------------------------------------
\* conn.Context.FlowCount under concurrent HTTP/2 streams
\* ------------------------------------------------------------------------
\* the streams of one HTTP/2 connection; h2Server.ServeConn runs the handler
\* of each stream's request on a goroutine of its own
Streams == 1..NumStreams

\* atomic.Uint32.Add: one indivisible read-modify-write. The counter wraps at
\* 2^32, which no run within NumStreams * MaxRequests requests reaches.
AtomicAdd_Dropped(v, delta) == IF v = 0 THEN delta ELSE v

AtomicAdd(v, delta) == v + delta

\* a request arrives on stream s: Attacker.ServeHTTP calls Attack, which
\* fetches the connection context and creates the flow
StreamServeHTTP(s) ==
    /\ h2.s[s].pc = "idle" /\ h2.s[s].served < MaxRequests
    /\ h2' = [h2 EXCEPT !.s[s].pc = "Attack"]
    /\ UNCHANGED <<srv, hs, tr, reg, fwd, sp, up>>
    /\ UNCHANGED <<rtbVars, flowVars, connVars, caVars>>

\* Attack: connCtx.FlowCount.Add(1)
AttackFlowCountAdd(s) ==
    /\ h2.s[s].pc = "Attack"
    /\ h2' = [h2 EXCEPT !.FlowCount = AtomicAdd(@, 1),
                        !.s[s].pc = "pipeline", !.s[s].counted = @ + 1]
    /\ UNCHANGED <<srv, hs, tr, reg, fwd, sp, up>>
    /\ UNCHANGED <<rtbVars, flowVars, connVars, caVars>>

\* the rest of the pipeline runs and Attack returns; the stream slot is free
AttackReturn(s) ==
    /\ h2.s[s].pc = "pipeline"
    /\ h2' = [h2 EXCEPT !.s[s].pc = "idle", !.s[s].served = @ + 1]
    /\ UNCHANGED <<srv, hs, tr, reg, fwd, sp, up>>
    /\ UNCHANGED <<rtbVars, flowVars, connVars, caVars>>

NextStreams ==
    \/ \E s \in Streams : StreamServeHTTP(s)
    \/ \E s \in Streams : AttackFlowCountAdd(s)
    \/ \E s \in Streams : AttackReturn(s)

\* ------------------------------------------------------------------------
\* The client-side TLS handshake of an intercepted tunnel: HTTPSTLSDial
\* (dial-first) and HTTPSLazyAttack (lazy), then serveConn
\* ------------------------------------------------------------------------
\* the ALPN lists a ClientHello may carry: no extension, or up to two of
\* three protocols
ClientOffers ==
    LET Protos == {"h2", "http/1.1", "other"}
    IN {<<>>} \cup {<<a>> : a \in Protos}
       \cup {<<a, b>> : <<a, b>> \in {x \in Protos \X Protos : x[1] # x[2]}}

\* crypto/tls negotiateALPN as the client-side handshake applies it to the
\* NextProtos of the returned config: "" when either side has no list, the
\* first server protocol the client offers, "" for an http/1.1-only client of
\* an h2 server, and a handshake failure otherwise
NegotiateALPN(serverProtos, clientProtos) ==
    LET common == {i \in 1..Len(serverProtos) :
                     \E j \in 1..Len(clientProtos) : serverProtos[i] = clientProtos[j]}
    IN IF Len(serverProtos) = 0 \/ Len(clientProtos) = 0 THEN ""
       ELSE IF common # {}
            THEN serverProtos[CHOOSE i \in common : \A k \in common : i <= k]
       ELSE IF (\E i \in 1..Len(serverProtos) : serverProtos[i] = "h2")
               /\ (\E j \in 1..Len(clientProtos) : clientProtos[j] = "http/1.1")
            THEN ""
       ELSE "fail"

\* GetConfigForClient of HTTPSTLSDial: NextProtos mirrors the protocol the
\* upstream handshake negotiated, and is empty when it negotiated none
DialFirstNextProtos_Fixed(negotiated) == <<"h2", "http/1.1">>

DialFirstNextProtos(negotiated) == IF negotiated # "" THEN <<negotiated>> ELSE <<>>

\* GetConfigForClient of HTTPSLazyAttack
LazyNextProtos_WithH2 == <<"h2", "http/1.1">>

LazyNextProtos == <<"http/1.1">>

\* serveConn: the HTTP/2 server takes the connection only when the client
\* negotiated h2 and the context holds a server connection
ServeConnTarget(negotiated, hasServerConn) ==
    IF negotiated = "h2" /\ hasServerConn THEN "h2Server" ELSE "listener"

\* HTTPSTLSDial after the ClientHello arrived: serverTLSHandshake offers the
\* client's protocols to the upstream, which selects one of them or none
ServerTLSHandshake ==
    /\ hs.pc = "serverTLSHandshake"
    /\ \/ \E sel \in {hs.clientProtos[i] : i \in 1..Len(hs.clientProtos)} \cup {""} :
            hs' = [hs EXCEPT !.pc = "GetConfigForClient", !.serverTLS = "done",
                             !.upstream = sel]
       \/ hs' = [hs EXCEPT !.pc = "closed", !.serverTLS = "failed"]
    /\ UNCHANGED <<srv, tr, reg, h2, fwd, sp, up>>
    /\ UNCHANGED <<rtbVars, flowVars, connVars, caVars>>

\* GetConfigForClient: (dial-first: after the server TLS state arrived) ask
\* the CA for the certificate and return the config offered to the client
GetConfigForClient ==
    /\ hs.pc = "GetConfigForClient"
    /\ \/ hs' = [hs EXCEPT !.pc = "clientHandshake", !.config = TRUE,
                            !.serverTLSAtConfig = hs.serverTLS,
                            !.NextProtos = IF hs.mode = "dialfirst"
                                           THEN DialFirstNextProtos(hs.upstream)
                                           ELSE LazyNextProtos]
       \/ hs' = [hs EXCEPT !.pc = "closed"]           \* GetCert failed
    /\ UNCHANGED <<srv, tr, reg, h2, fwd, sp, up>>
    /\ UNCHANGED <<rtbVars, flowVars, connVars, caVars>>

\* the client handshake finishes with the returned config, or fails
ClientHandshake ==
    /\ hs.pc = "clientHandshake"
    /\ LET n == NegotiateALPN(hs.NextProtos, hs.clientProtos)
       IN \/ /\ n # "fail"
             /\ hs' = [hs EXCEPT !.pc = "serveConn", !.negotiated = n]
          \/ hs' = [hs EXCEPT !.pc = "closed"]
    /\ UNCHANGED <<srv, tr, reg, h2, fwd, sp, up>>
    /\ UNCHANGED <<rtbVars, flowVars, connVars, caVars>>

\* serveConn hands the decrypted connection to the HTTP/2 server or to the
\* HTTP/1.1 listener
ServeConn ==
    /\ hs.pc = "serveConn"
    /\ hs' = [hs EXCEPT !.pc = "serving",
                        !.target = ServeConnTarget(hs.negotiated, hs.hasServerConn)]
    /\ UNCHANGED <<srv, tr, reg, h2, fwd, sp, up>>
    /\ UNCHANGED <<rtbVars, flowVars, connVars, caVars>>

NextALPN ==
    \/ ServerTLSHandshake
    \/ GetConfigForClient
    \/ ClientHandshake
    \/ ServeConn

\* ------------------------------------------------------------------------
\* transfer: the bidirectional copy of an opaque tunnel (entry.directTransfer)
\* ------------------------------------------------------------------------
\* what the next Read of a copy loop returns: "block" while the peer is
\* silent, "data", "eof" (io.Copy returns nil) or "err". A socket this side
\* closed fails, pending bytes come before the end of the stream, and a read
\* side shut by CloseRead is at its end.
ReadResult(closed, shut, pending, peer) ==
    IF closed THEN "err"
    ELSE IF pending THEN "data"
    ELSE IF shut \/ peer = "eof" THEN "eof"
    ELSE IF peer = "err" THEN "err"
    ELSE "block"

\* the peers: each may send bytes, close its side (FIN) or fail (RST)
PeerEvent ==
    /\ tr.main # "idle"
    /\ \E side \in {"client", "server"}, ev \in {"data", "eof", "err"} :
         /\ tr[side] = "open"
         /\ IF ev = "data"
            THEN /\ ~tr.pending[side]
                 /\ tr' = [tr EXCEPT !.pending[side] = TRUE]
            ELSE tr' = [tr EXCEPT ![side] = ev]
    /\ UNCHANGED <<srv, hs, reg, h2, fwd, sp, up>>
    /\ UNCHANGED <<rtbVars, flowVars, connVars, caVars>>

\* first goroutine: io.Copy(server, client); client.Close(); then send the
\* error unless done is closed
CopyClientToServer ==
    /\ LET r == ReadResult(tr.closed.client, tr.shut, tr.pending.client, tr.client)
       IN \/ /\ tr.a = "copy" /\ r = "data" /\ ~tr.closed.server
             /\ tr' = [tr EXCEPT !.pending.client = FALSE]
          \/ /\ tr.a = "copy" /\ (r \in {"eof", "err"} \/ (r = "data" /\ tr.closed.server))
             /\ tr' = [tr EXCEPT !.a = "close", !.err.a = (r # "eof")]
          \/ /\ tr.a = "close"
             /\ tr' = [tr EXCEPT !.a = "send", !.closed.client = TRUE]
          \/ /\ tr.a = "send" /\ tr.done
             /\ tr' = [tr EXCEPT !.a = "done"]
    /\ UNCHANGED <<srv, hs, reg, h2, fwd, sp, up>>
    /\ UNCHANGED <<rtbVars, flowVars, connVars, caVars>>

\* second goroutine: io.Copy(client, server); server.Close(); CloseRead on the
\* client if it is a wrapClientConn; then send the error unless done is closed
CopyServerToClient ==
    /\ LET r == ReadResult(tr.closed.server, FALSE, tr.pending.server, tr.server)
       IN \/ /\ tr.b = "copy" /\ r = "data" /\ ~tr.closed.client
             /\ tr' = [tr EXCEPT !.pending.server = FALSE]
          \/ /\ tr.b = "copy" /\ (r \in {"eof", "err"} \/ (r = "data" /\ tr.closed.client))
             /\ tr' = [tr EXCEPT !.b = "close", !.err.b = (r # "eof")]
          \/ /\ tr.b = "close"
             /\ tr' = [tr EXCEPT !.b = "send", !.closed.server = TRUE,
                                 !.shut = @ \/ (tr.isWrapClientConn /\ ~tr.closed.client)]
          \/ /\ tr.b = "send" /\ tr.done
             /\ tr' = [tr EXCEPT !.b = "done"]
    /\ UNCHANGED <<srv, hs, reg, h2, fwd, sp, up>>
    /\ UNCHANGED <<rtbVars, flowVars, connVars, caVars>>

\* the receive loop of transfer: up to two values from errChan, returning at
\* the first non-nil one
TransferRecv ==
    /\ tr.main = "recv"
    /\ \E g \in {"a", "b"} :
         /\ tr[g] = "send"
         /\ tr' = [tr EXCEPT ![g] = "done", !.i = @ + 1,
                             !.main = IF tr.err[g] \/ tr.i + 1 = 2 THEN "return" ELSE "recv"]
    /\ UNCHANGED <<srv, hs, reg, h2, fwd, sp, up>>
    /\ UNCHANGED <<rtbVars, flowVars, connVars, caVars>>

\* transfer returns: deferred close(done); then directTransfer's deferred
\* cconn.Close() and upstreamConn.Close() run and the handler returns
TransferReturn ==
    /\ tr.main = "return"
    /\ tr' = [tr EXCEPT !.main = "returned", !.done = TRUE,
                        !.closed = [client |-> TRUE, server |-> TRUE]]
    /\ UNCHANGED <<srv, hs, reg, h2, fwd, sp, up>>
    /\ UNCHANGED <<rtbVars, flowVars, connVars, caVars>>

NextTransfer ==
    \/ PeerEvent
    \/ CopyClientToServer
    \/ CopyServerToClient
    \/ TransferRecv
    \/ TransferReturn

\* ------------------------------------------------------------------------
\* The proxy process: the entry server's accept loop, entry.ServeHTTP's
\* routing, hijacked tunnels, addon panics, and Proxy.Close
\* ------------------------------------------------------------------------
\* client connections the listener may accept
Conns == 1..NumConns

\* entry.ServeHTTP: the authentication check comes first, then CONNECT, then
\* the non-proxy request, then the plain-HTTP pipeline
EntryRoute_ConnectFirst(authConfigured, authOK, method) ==
    IF method = "CONNECT" THEN "handleConnect"
    ELSE IF authConfigured /\ ~authOK THEN "reject"
    ELSE IF method = "direct" THEN "accessProxyServer"
    ELSE "Attack"

EntryRoute(authConfigured, authOK, method) ==
    IF authConfigured /\ ~authOK THEN "reject"
    ELSE IF method = "CONNECT" THEN "handleConnect"
    ELSE IF method = "direct" THEN "accessProxyServer"
    ELSE "Attack"

\* wrapListener.Accept, called by http.Server.Serve's accept loop: wrap the
\* socket and run the ClientConnected hooks. Nothing between the hook and the
\* top of the goroutine that called Proxy.Start recovers a panic.
ListenerAccept(c) ==
    /\ srv.proc = "running" /\ srv.listener = "open"
    /\ srv.conns[c].st = "none"
    /\ \E panics \in BOOLEAN :
         srv' = IF panics
                THEN [srv EXCEPT !.proc = "terminated", !.panics = @ \cup {"ClientConnected"}]
                ELSE [srv EXCEPT !.conns[c].st = "tracked"]
    /\ UNCHANGED <<hs, tr, reg, h2, fwd, sp, up>>
    /\ UNCHANGED <<rtbVars, flowVars, connVars, caVars>>

\* entry.ServeHTTP on the connection's serving goroutine: proxy
\* authentication (407 through httpError), then the route; a non-proxy
\* request is answered here
EntryServeHTTP_Route(c) ==
    /\ srv.proc = "running" /\ srv.reqs < MaxRequests
    /\ srv.conns[c].st = "tracked" /\ srv.conns[c].pc = "idle"
    /\ \E method \in {"CONNECT", "GET", "direct"}, authOK \in BOOLEAN :
         LET route == EntryRoute(srv.authProxy, authOK, method)
         IN srv' = [srv EXCEPT
                      !.reqs = @ + 1,
                      !.conns[c].req = [method |-> method,
                                        authFailed |-> srv.authProxy /\ ~authOK],
                      !.conns[c].flow = "none",
                      !.conns[c].log =
                          CASE route = "reject" -> <<"Proxy-Authenticate", "WriteHeader 407">>
                            [] route = "accessProxyServer" ->
                                 <<"AccessProxyServer", "WriteHeader 400">>
                            [] OTHER -> <<>>,
                      !.conns[c].pc = IF route \in {"handleConnect", "Attack"}
                                      THEN route ELSE "idle"]
    /\ UNCHANGED <<hs, tr, reg, h2, fwd, sp, up>>
    /\ UNCHANGED <<rtbVars, flowVars, connVars, caVars>>

\* entry.handleConnect, coarsely: the flow with its deferred Finish, the
\* Requestheaders hooks, the dial, the hijack. A panic of a hook unwinds to
\* net/http's per-connection recover, which closes the connection.
HandleConnect(c) ==
    /\ srv.proc = "running" /\ srv.conns[c].pc = "handleConnect"
    /\ \E out \in {"panic", "dialfail", "tunnel"} :
         srv' = CASE out = "panic" ->
                       [srv EXCEPT !.conns[c].log = @ \o <<"NewFlow", "Requestheaders">>,
                                   !.conns[c].flow = "finished", !.conns[c].pc = "idle",
                                   !.conns[c].st = IF @ = "tracked" THEN "closed" ELSE @,
                                   !.panics = @ \cup {"Requestheaders"}]
                  [] out = "dialfail" ->
                       [srv EXCEPT !.conns[c].log = @ \o <<"NewFlow", "Requestheaders",
                                                           "Dial", "WriteHeader 502">>,
                                   !.conns[c].flow = "finished", !.conns[c].pc = "idle"]
                  [] out = "tunnel" ->
                       [srv EXCEPT !.conns[c].log = @ \o <<"NewFlow", "Requestheaders",
                                                           "Dial", "Hijack", "Established">>,
                                   !.conns[c].flow = "started", !.conns[c].pc = "tunnel",
                                   !.conns[c].st = IF @ = "tracked" THEN "hijacked" ELSE @,
                                   !.conns[c].upstream = "open"]
    /\ UNCHANGED <<hs, tr, reg, h2, fwd, sp, up>>
    /\ UNCHANGED <<rtbVars, flowVars, connVars, caVars>>

\* Attacker.Attack, coarsely: deferred recover, the flow with its deferred
\* Finish, the hooks. A panic of a hook is recovered by Attack itself.
AttackRequest(c) ==
    /\ srv.proc = "running" /\ srv.conns[c].pc = "Attack"
    /\ \E out \in {"panic", "reply"} :
         srv' = [srv EXCEPT
                   !.conns[c].log = @ \o <<"NewFlow", "Requestheaders">> \o
                                    (IF out = "panic" THEN <<"recover">>
                                     ELSE <<"Dial", "WriteHeader 200">>),
                   !.conns[c].flow = "finished", !.conns[c].pc = "idle",
                   !.panics = IF out = "panic" THEN @ \cup {"Requestheaders"} ELSE @]
    /\ UNCHANGED <<hs, tr, reg, h2, fwd, sp, up>>
    /\ UNCHANGED <<rtbVars, flowVars, connVars, caVars>>

\* a tunnel ends because a peer closed or failed: a copy goroutine of transfer
\* closes the client connection, whose Close runs the ClientDisconnected
\* hooks on that goroutine, where nothing recovers a panic
TunnelEnd(c) ==
    /\ srv.proc = "running" /\ srv.conns[c].pc = "tunnel"
    /\ \E panics \in BOOLEAN :
         srv' = [srv EXCEPT
                   !.conns[c].st = "closed", !.conns[c].upstream = "closed",
                   !.conns[c].flow = "finished", !.conns[c].pc = "idle",
                   !.proc = IF panics THEN "terminated" ELSE @,
                   !.panics = IF panics THEN @ \cup {"ClientDisconnected"} ELSE @]
    /\ UNCHANGED <<hs, tr, reg, h2, fwd, sp, up>>
    /\ UNCHANGED <<rtbVars, flowVars, connVars, caVars>>

\* Proxy.Close: entry.close calls http.Server.Close on the entry server, which
\* closes the listener and every connection the server still tracks; hijacked
\* connections are no longer tracked by it
ProxyClose ==
    /\ srv.proc = "running" /\ srv.entry = "serving"
    /\ srv' = [srv EXCEPT
                 !.entry = "closed", !.listener = "closed",
                 !.conns = [c \in Conns |->
                              IF srv.conns[c].st = "tracked"
                              THEN [srv.conns[c] EXCEPT !.st = "closed", !.pc = "idle"]
                              ELSE srv.conns[c]]]
    /\ UNCHANGED <<hs, tr, reg, h2, fwd, sp, up>>
    /\ UNCHANGED <<rtbVars, flowVars, connVars, caVars>>

NextProxy ==
    \/ \E c \in Conns : ListenerAccept(c)
    \/ \E c \in Conns : EntryServeHTTP_Route(c)
    \/ \E c \in Conns : HandleConnect(c)
    \/ \E c \in Conns : AttackRequest(c)
    \/ \E c \in Conns : TunnelEnd(c)
    \/ ProxyClose

\* ------------------------------------------------------------------------
\* upstream.Manager.GetUpstreamConn and helper.GetProxyConn
\* ------------------------------------------------------------------------
\* how the upstream is reached: directly, or through a proxy of this scheme
UpstreamSchemes == {"direct", "http", "https", "socks5"}

\* what the upstream proxy answers to CONNECT: a status line, a status line
\* without a reason phrase, or nothing readable
ConnectReplies == {"200 OK", "407 Proxy Authentication Required", "502 Bad Gateway",
                   "503", "unreadable"}

\* strings.Cut(resp.Status, " "): the text after the first space, if any
StatusText(status) ==
    CASE status = "200 OK" -> "OK"
      [] status = "407 Proxy Authentication Required" -> "Proxy Authentication Required"
      [] status = "502 Bad Gateway" -> "Bad Gateway"
      [] OTHER -> "unknown status code"

\* executeProxyRequest: the status written for an error of the dial function
StatusForDialError(err) ==
    IF err = "Proxy Authentication Required" THEN 407 ELSE 502

UpReturn(conn, err) ==
    [up EXCEPT !.pc = "returned", !.ret = [conn |-> conn, err |-> err]]

\* GetUpstreamConn: no proxy is configured and the target is dialed directly
DirectDial ==
    /\ up.pc = "start" /\ up.scheme = "direct"
    /\ up' = IF up.outcome.dial THEN UpReturn("open", "nil")
             ELSE UpReturn("nil", "dial tcp: connection refused")
    /\ UNCHANGED <<srv, hs, tr, reg, h2, fwd, sp>>
    /\ UNCHANGED <<rtbVars, flowVars, connVars, caVars>>

\* GetProxyConn, socks5 branch: dc.DialContext; on an error the code calls
\* conn.Close() on the nil connection DialContext returned with it
Socks5Dial ==
    /\ up.pc = "start" /\ up.scheme = "socks5"
    /\ up' = IF up.outcome.dial THEN UpReturn("open", "nil")
             ELSE [up EXCEPT !.pc = "panicked"]
    /\ UNCHANGED <<srv, hs, tr, reg, h2, fwd, sp>>
    /\ UNCHANGED <<rtbVars, flowVars, connVars, caVars>>

\* GetProxyConn: the TCP dial to an http or https proxy
ProxyDial ==
    /\ up.pc = "start" /\ up.scheme \in {"http", "https"}
    /\ up' = IF up.outcome.dial
             THEN [up EXCEPT !.conn = "open",
                             !.pc = IF up.scheme = "https" THEN "tls" ELSE "connect"]
             ELSE UpReturn("nil", "dial tcp: connection refused")
    /\ UNCHANGED <<srv, hs, tr, reg, h2, fwd, sp>>
    /\ UNCHANGED <<rtbVars, flowVars, connVars, caVars>>

\* GetProxyConn: the TLS handshake with an https proxy
ProxyTLSHandshake ==
    /\ up.pc = "tls"
    /\ up' = IF up.outcome.tls
             THEN [up EXCEPT !.pc = "connect"]
             ELSE [UpReturn("nil", "tls: handshake failure") EXCEPT !.conn = "closed"]
    /\ UNCHANGED <<srv, hs, tr, reg, h2, fwd, sp>>
    /\ UNCHANGED <<rtbVars, flowVars, connVars, caVars>>

\* GetProxyConn: start the goroutine that writes CONNECT and reads the reply
ConnectGo ==
    /\ up.pc = "connect"
    /\ up' = [up EXCEPT !.pc = "select", !.g = "write"]
    /\ UNCHANGED <<srv, hs, tr, reg, h2, fwd, sp>>
    /\ UNCHANGED <<rtbVars, flowVars, connVars, caVars>>

\* the goroutine: connectReq.Write(conn)
ConnectWrite ==
    /\ up.g = "write"
    /\ up' = IF up.outcome.write /\ up.conn = "open"
             THEN [up EXCEPT !.g = "read"]
             ELSE [up EXCEPT !.g = "done", !.err = "write: broken pipe"]
    /\ UNCHANGED <<srv, hs, tr, reg, h2, fwd, sp>>
    /\ UNCHANGED <<rtbVars, flowVars, connVars, caVars>>

\* the goroutine: http.ReadResponse, then the deferred close(didReadResponse)
ConnectRead ==
    /\ up.g = "read"
    /\ up' = IF up.outcome.reply # "unreadable" /\ up.conn = "open"
             THEN [up EXCEPT !.g = "done", !.resp = up.outcome.reply]
             ELSE [up EXCEPT !.g = "done", !.err = "malformed HTTP response"]
    /\ UNCHANGED <<srv, hs, tr, reg, h2, fwd, sp>>
    /\ UNCHANGED <<rtbVars, flowVars, connVars, caVars>>

\* the select's connectCtx.Done() case: close the connection and wait for
\* the goroutine
ConnectTimeout ==
    /\ up.pc = "select" /\ up.g # "done"
    /\ up' = [up EXCEPT !.pc = "drain", !.conn = "closed"]
    /\ UNCHANGED <<srv, hs, tr, reg, h2, fwd, sp>>
    /\ UNCHANGED <<rtbVars, flowVars, connVars, caVars>>

\* <-didReadResponse after the timeout, then return connectCtx.Err()
ConnectDrained ==
    /\ up.pc = "drain" /\ up.g = "done"
    /\ up' = UpReturn("nil", "context deadline exceeded")
    /\ UNCHANGED <<srv, hs, tr, reg, h2, fwd, sp>>
    /\ UNCHANGED <<rtbVars, flowVars, connVars, caVars>>

\* the select's didReadResponse case and the checks of err and of the status
ConnectCheck ==
    /\ up.pc = "select" /\ up.g = "done"
    /\ up' = IF up.err # "nil"
             THEN [UpReturn("nil", up.err) EXCEPT !.conn = "closed"]
             ELSE IF up.resp # "200 OK"
             THEN [UpReturn("nil", StatusText(up.resp)) EXCEPT !.conn = "closed"]
             ELSE UpReturn("open", "nil")
    /\ UNCHANGED <<srv, hs, tr, reg, h2, fwd, sp>>
    /\ UNCHANGED <<rtbVars, flowVars, connVars, caVars>>

\* the caller, executeProxyRequest: a dial error becomes a status; a panic is
\* caught by Attack's recover, which writes nothing
UpstreamCaller ==
    /\ up.pc \in {"returned", "panicked"}
    /\ up.status = 0
    /\ up.pc = "returned" => up.ret.err # "nil"
    /\ up' = [up EXCEPT !.status = IF up.pc = "panicked" THEN -1
                                   ELSE StatusForDialError(up.ret.err)]
    /\ UNCHANGED <<srv, hs, tr, reg, h2, fwd, sp>>
    /\ UNCHANGED <<rtbVars, flowVars, connVars, caVars>>

NextUpstream ==
    \/ DirectDial
    \/ Socks5Dial
    \/ ProxyDial
    \/ ProxyTLSHandshake
    \/ ConnectGo
    \/ ConnectWrite
    \/ ConnectRead
    \/ ConnectTimeout
    \/ ConnectDrained
    \/ ConnectCheck
    \/ UpstreamCaller

\* ------------------------------------------------------------------------
\* One plain-HTTP client connection and the hosts of its requests
\* ------------------------------------------------------------------------
Hosts == 1..NumHosts

\* what an addon's request hook does to the flow
ForwardActs ==
    {[op |-> "nop", host |-> 0], [op |-> "separate", host |-> 0]}
        \cup {[op |-> "rewrite", host |-> h] : h \in Hosts}

\* entry.ServeHTTP, plain proxy request for host h: InitHTTPDialFn stores a
\* dial function that closes over this request, then Attack starts the flow
ForwardServeHTTP ==
    /\ fwd.pc = "idle"
    /\ fwd.n < MaxRequests
    /\ \E h \in Hosts :
         fwd' = [fwd EXCEPT !.pc = "hooks", !.n = @ + 1, !.DialFn = h,
                            !.req = [rawHost |-> h, urlHost |-> h,
                                     UseSeparateClient |-> FALSE]]
    /\ UNCHANGED <<srv, hs, tr, reg, h2, sp, up>>
    /\ UNCHANGED <<rtbVars, flowVars, connVars, caVars>>

\* Attack: the request hooks of the addons
ForwardHooks ==
    /\ fwd.pc = "hooks"
    /\ \E act \in ForwardActs :
         fwd' = [fwd EXCEPT
                   !.pc = "executeProxyRequest",
                   !.req = CASE act.op = "nop" -> @
                             [] act.op = "separate" -> [@ EXCEPT !.UseSeparateClient = TRUE]
                             [] act.op = "rewrite" -> [@ EXCEPT !.urlHost = act.host]]
    /\ UNCHANGED <<srv, hs, tr, reg, h2, sp, up>>
    /\ UNCHANGED <<rtbVars, flowVars, connVars, caVars>>

\* executeProxyRequest up to the exchange: the main client; or the dial
\* function, invoked only while the context has no server connection; or
\* the server connection the context already holds
ForwardExecuteProxyRequest ==
    /\ fwd.pc = "executeProxyRequest"
    /\ IF UseSeparateClient(fwd.req.UseSeparateClient, fwd.req.rawHost # fwd.req.urlHost)
       THEN fwd' = [fwd EXCEPT !.pc = "idle",
                               !.sent = Append(@, [target |-> fwd.req.urlHost,
                                                   via |-> "main", addr |-> 0])]
       ELSE IF fwd.ServerConn = 0 /\ fwd.DialFn # 0
       THEN \E ok \in BOOLEAN :
              fwd' = IF ok THEN [fwd EXCEPT !.pc = "Do", !.ServerConn = fwd.DialFn,
                                            !.dials = Append(@, fwd.DialFn)]
                     ELSE [fwd EXCEPT !.pc = "idle",       \* answered 502, nothing sent
                                      !.sent = Append(@, [target |-> fwd.req.urlHost,
                                                          via |-> "none", addr |-> 0])]
       ELSE fwd' = [fwd EXCEPT !.pc = "Do"]
    /\ UNCHANGED <<srv, hs, tr, reg, h2, sp, up>>
    /\ UNCHANGED <<rtbVars, flowVars, connVars, caVars>>

\* f.ConnContext.ServerConn.Client.Do: the client's transport writes the
\* request to the one socket its dial hook returns, whatever the host
ForwardDo ==
    /\ fwd.pc = "Do"
    /\ fwd' = [fwd EXCEPT !.pc = "idle",
                          !.sent = Append(@, [target |-> fwd.req.urlHost,
                                              via |-> "server", addr |-> fwd.ServerConn])]
    /\ UNCHANGED <<srv, hs, tr, reg, h2, sp, up>>
    /\ UNCHANGED <<rtbVars, flowVars, connVars, caVars>>

NextForward ==
    \/ ForwardServeHTTP
    \/ ForwardHooks
    \/ ForwardExecuteProxyRequest
    \/ ForwardDo

\* ------------------------------------------------------------------------
\* Attacker.HTTPSTLSDial: the dial-first TLS splice, its goroutines and channels
\* ------------------------------------------------------------------------
\* errChan1 and errChan2 are made with room for one error, so that the one
\* send each of them ever gets does not wait for a receiver
ErrChanHasRoom_Never(n) == FALSE

ErrChanHasRoom(n) == n < 1

\* the error paths of HTTPSTLSDial: cconn.Close() and sconn.Close()
CloseBoth_ClientOnly(s) == [s EXCEPT !.cconn = "closed"]

CloseBoth(s) == [s EXCEPT !.cconn = "closed", !.sconn = "closed"]

\* a handshake's reads and writes succeed only on an open socket and while
\* the context is not cancelled; they may fail in any case
IOResults(sock) ==
    IF sock = "open" /\ ~sp.ctxDone THEN {"ok", "err"} ELSE {"err"}

\* the handshake goroutine: HandshakeContext reads the ClientHello
ClientReadHello ==
    /\ sp.h = "readHello"
    /\ \E r \in IOResults(sp.cconn) :
         sp' = IF r = "ok" THEN [sp EXCEPT !.h = "sendHello"]
               ELSE [sp EXCEPT !.h = "sendErr", !.clientFailed = TRUE]
    /\ UNCHANGED <<srv, hs, tr, reg, h2, fwd, up>>
    /\ UNCHANGED <<rtbVars, flowVars, connVars, caVars>>

\* GetConfigForClient: clientHelloChan <- chi, received by the first select
\* of HTTPSTLSDial (the channel is unbuffered: both sides move together)
ClientHelloRendezvous ==
    /\ sp.h = "sendHello" /\ sp.main = "select1"
    /\ sp' = [sp EXCEPT !.h = "select2", !.main = "serverTLSHandshake"]
    /\ UNCHANGED <<srv, hs, tr, reg, h2, fwd, up>>
    /\ UNCHANGED <<rtbVars, flowVars, connVars, caVars>>

\* HTTPSTLSDial, first select, case err := <-errChan1
Select1Err ==
    /\ sp.main = "select1" /\ sp.errChan1 > 0
    /\ sp' = [CloseBoth(sp) EXCEPT !.errChan1 = @ - 1, !.main = "returned"]
    /\ UNCHANGED <<srv, hs, tr, reg, h2, fwd, up>>
    /\ UNCHANGED <<rtbVars, flowVars, connVars, caVars>>

\* HTTPSTLSDial: serverTLSHandshake offers the protocols of the ClientHello to
\* the upstream, which selects one or none; on an error close both sockets,
\* put the error in errChan2 and return
SpliceServerTLSHandshake ==
    /\ sp.main = "serverTLSHandshake"
    /\ \E r \in IOResults(sp.sconn) :
         IF r = "ok"
         THEN \E sel \in {sp.clientProtos[i] : i \in 1..Len(sp.clientProtos)} \cup {""} :
                sp' = [sp EXCEPT !.main = "sendState", !.upstream = sel]
         ELSE /\ ErrChanHasRoom(sp.errChan2)
              /\ sp' = [CloseBoth(sp) EXCEPT !.errChan2 = @ + 1, !.main = "returned",
                                            !.serverFailed = TRUE]
    /\ UNCHANGED <<srv, hs, tr, reg, h2, fwd, up>>
    /\ UNCHANGED <<rtbVars, flowVars, connVars, caVars>>

\* serverTLSStateChan <- TLSState, received by the select of GetConfigForClient
TLSStateRendezvous ==
    /\ sp.main = "sendState" /\ sp.h = "select2"
    /\ sp' = [sp EXCEPT !.main = "select3", !.h = "GetCert",
                        !.nextProtos = DialFirstNextProtos(sp.upstream)]
    /\ UNCHANGED <<srv, hs, tr, reg, h2, fwd, up>>
    /\ UNCHANGED <<rtbVars, flowVars, connVars, caVars>>

\* GetConfigForClient, case err := <-errChan2: the handshake fails with it
Select2Err ==
    /\ sp.h = "select2" /\ sp.errChan2 > 0
    /\ sp' = [sp EXCEPT !.errChan2 = @ - 1, !.h = "sendErr", !.clientFailed = TRUE]
    /\ UNCHANGED <<srv, hs, tr, reg, h2, fwd, up>>
    /\ UNCHANGED <<rtbVars, flowVars, connVars, caVars>>

\* GetConfigForClient: a.ca.GetCert, and the configuration or its error
SpliceGetCert ==
    /\ sp.h = "GetCert"
    /\ \E ok \in BOOLEAN :
         sp' = IF ok THEN [sp EXCEPT !.h = "finish"]
               ELSE [sp EXCEPT !.h = "sendErr", !.clientFailed = TRUE]
    /\ UNCHANGED <<srv, hs, tr, reg, h2, fwd, up>>
    /\ UNCHANGED <<rtbVars, flowVars, connVars, caVars>>

\* the rest of the client-side handshake after GetConfigForClient: the ALPN
\* choice from the returned NextProtos, then the remaining round trips
ClientFinishHandshake ==
    /\ sp.h = "finish"
    /\ \E r \in IOResults(sp.cconn) :
         LET n == NegotiateALPN(sp.nextProtos, sp.clientProtos)
         IN sp' = IF r = "ok" /\ n # "fail"
                  THEN [sp EXCEPT !.h = "closeDone", !.negotiated = n]
                  ELSE [sp EXCEPT !.h = "sendErr", !.clientFailed = TRUE]
    /\ UNCHANGED <<srv, hs, tr, reg, h2, fwd, up>>
    /\ UNCHANGED <<rtbVars, flowVars, connVars, caVars>>

\* the handshake goroutine: errChan1 <- err; return
HandshakeSendErr ==
    /\ sp.h = "sendErr"
    /\ ErrChanHasRoom(sp.errChan1)
    /\ sp' = [sp EXCEPT !.errChan1 = @ + 1, !.h = "exited"]
    /\ UNCHANGED <<srv, hs, tr, reg, h2, fwd, up>>
    /\ UNCHANGED <<rtbVars, flowVars, connVars, caVars>>

\* the handshake goroutine: close(clientHandshakeDoneChan)
HandshakeCloseDone ==
    /\ sp.h = "closeDone"
    /\ sp' = [sp EXCEPT !.done = TRUE, !.h = "exited"]
    /\ UNCHANGED <<srv, hs, tr, reg, h2, fwd, up>>
    /\ UNCHANGED <<rtbVars, flowVars, connVars, caVars>>

\* HTTPSTLSDial, last select: an error of the client handshake closes both
\* sockets and returns; the closed done channel leads on to serveConn
Select3 ==
    /\ sp.main = "select3"
    /\ \/ /\ sp.errChan1 > 0
          /\ sp' = [CloseBoth(sp) EXCEPT !.errChan1 = @ - 1, !.main = "returned"]
       \/ /\ sp.done
          /\ sp' = [sp EXCEPT !.main = "serveConn"]
    /\ UNCHANGED <<srv, hs, tr, reg, h2, fwd, up>>
    /\ UNCHANGED <<rtbVars, flowVars, connVars, caVars>>

\* the request context is cancelled
CtxCancel ==
    /\ ~sp.ctxDone
    /\ sp.main \notin {"returned", "serveConn"}
    /\ sp' = [sp EXCEPT !.ctxDone = TRUE]
    /\ UNCHANGED <<srv, hs, tr, reg, h2, fwd, up>>
    /\ UNCHANGED <<rtbVars, flowVars, connVars, caVars>>

\* the steps of HTTPSTLSDial itself
SpliceMainStep ==
    \/ ClientHelloRendezvous
    \/ Select1Err
    \/ SpliceServerTLSHandshake
    \/ TLSStateRendezvous
    \/ Select3

\* the steps of the client-handshake goroutine
SpliceHandshakeStep ==
    \/ ClientReadHello
    \/ ClientHelloRendezvous
    \/ TLSStateRendezvous
    \/ Select2Err
    \/ SpliceGetCert
    \/ ClientFinishHandshake
    \/ HandshakeSendErr
    \/ HandshakeCloseDone

NextSplice ==
    \/ ClientReadHello
    \/ ClientHelloRendezvous
    \/ Select1Err
    \/ SpliceServerTLSHandshake
    \/ TLSStateRendezvous
    \/ Select2Err
    \/ SpliceGetCert
    \/ ClientFinishHandshake
    \/ HandshakeSendErr
    \/ HandshakeCloseDone
    \/ Select3
    \/ CtxCancel

\* ------------------------------------------------------------------------
\* Specifications
\* ------------------------------------------------------------------------
\* a listening proxy before the client connection is accepted; the variables
\* of the other two specifications stay at their idle values
InitConn ==
    /\ accepted = FALSE
    /\ events = <<>>
    /\ wcc = [closed |-> FALSE, mu |-> "free", rawCloses |-> 0, chanCloses |-> 0,
              readClosed |-> FALSE]
    /\ wsc = <<>>
    /\ cc = [ServerConn |-> 0, DialFn |-> "nil", TLS |-> FALSE, CloseAfterResponse |-> FALSE]
    /\ handler = [pc |-> "accept", via |-> "entry", mode |-> "none", reqs |-> 0]
    /\ stack = [p \in Closers |-> <<>>]
    /\ ghost = [calls |-> 0, clientClosedBy |-> "none",
                serverClosedBy |-> <<>>, clientReturns |-> 0, closerDone |-> FALSE,
                reentered |-> FALSE, flows |-> <<>>, scFlow |-> <<>>, reached |-> {}]
    /\ rtb_src = RTBIdle.src
    /\ rtb_limit = RTBIdle.limit
    /\ rtb_res = RTBIdle.res
    /\ rtb_out = RTBIdle.out
    /\ rtb_st = RTBIdle.st
    /\ kind = FlowIdle.kind
    /\ pc = FlowIdle.pc
    /\ idx = FlowIdle.idx
    /\ f = FlowIdle.f
    /\ connCtx = FlowIdle.connCtx
    /\ inp = FlowIdle.inp
    /\ trace = FlowIdle.trace
    /\ hist = FlowIdle.hist
    /\ ca_cache = CAIdle.cache
    /\ ca_group = CAIdle.group
    /\ ca_calls = CAIdle.calls
    /\ ca_g = CAIdle.g
    /\ ca_issued = CAIdle.issued
    /\ srv = AuxIdle.srv
    /\ hs = AuxIdle.hs
    /\ tr = AuxIdle.tr
    /\ reg = AuxIdle.reg
    /\ h2 = AuxIdle.h2
    /\ fwd = AuxIdle.fwd
    /\ sp = AuxIdle.sp
    /\ up = AuxIdle.up

\* a caller about to hand a reader and a limit to ReaderToBuffer
InitRTB ==
    /\ \E data \in SeqsUpTo(Byte, MaxLen) :
         \E e \in {NoErr} \cup (0..Len(data)) :
            rtb_src = NewReader(data, e)
    /\ rtb_limit \in 0..MaxLimit
    /\ rtb_res = NoResult
    /\ rtb_out = <<>>
    /\ rtb_st = "init"
    /\ kind = FlowIdle.kind
    /\ pc = FlowIdle.pc
    /\ idx = FlowIdle.idx
    /\ f = FlowIdle.f
    /\ connCtx = FlowIdle.connCtx
    /\ inp = FlowIdle.inp
    /\ trace = FlowIdle.trace
    /\ hist = FlowIdle.hist
    /\ accepted = ConnIdle.accepted
    /\ events = ConnIdle.events
    /\ wcc = ConnIdle.wcc
    /\ wsc = ConnIdle.wsc
    /\ cc = ConnIdle.cc
    /\ handler = ConnIdle.handler
    /\ stack = ConnIdle.stack
    /\ ghost = ConnIdle.ghost
    /\ ca_cache = CAIdle.cache
    /\ ca_group = CAIdle.group
    /\ ca_calls = CAIdle.calls
    /\ ca_g = CAIdle.g
    /\ ca_issued = CAIdle.issued
    /\ srv = AuxIdle.srv
    /\ hs = AuxIdle.hs
    /\ tr = AuxIdle.tr
    /\ reg = AuxIdle.reg
    /\ h2 = AuxIdle.h2
    /\ fwd = AuxIdle.fwd
    /\ sp = AuxIdle.sp
    /\ up = AuxIdle.up

\* The request reaches a handler. path says how: "forward" is a plain-HTTP
\* proxy request routed by entry.ServeHTTP, "dialfirst" and "lazy" are requests
\* decrypted from an intercepted tunnel and routed by Attacker.ServeHTTP,
\* "connect" is a CONNECT routed to entry.handleConnect.
InitFlow ==
    /\ \E p \in {"forward", "dialfirst", "lazy", "connect"}, sc \in {"nil", "ready", "noclient"} :
         /\ kind = IF p = "connect" THEN "connect" ELSE "pipeline"
         /\ inp \in [path : {p}, limit : 1..MaxLimit]
         /\ (p = "dialfirst" => sc = "ready")
         /\ (p \in {"forward", "connect"} => sc # "noclient")
         /\ connCtx = [ServerConn |-> sc,
                       DialFn |-> IF p = "lazy" THEN "https" ELSE "nil",
                       CloseAfterResponse |-> FALSE, FlowCount |-> 0,
                       UpstreamCert |-> TRUE, Intercept |-> p \in {"dialfirst", "lazy"},
                       TLS |-> p \in {"dialfirst", "lazy"}]
    /\ pc = "start"
    /\ idx = 0
    /\ f = NewFlow
    /\ trace = <<>>
    /\ hist = NoHist
    /\ rtb_src = RTBIdle.src
    /\ rtb_limit = RTBIdle.limit
    /\ rtb_res = RTBIdle.res
    /\ rtb_out = RTBIdle.out
    /\ rtb_st = RTBIdle.st
    /\ accepted = ConnIdle.accepted
    /\ events = ConnIdle.events
    /\ wcc = ConnIdle.wcc
    /\ wsc = ConnIdle.wsc
    /\ cc = ConnIdle.cc
    /\ handler = ConnIdle.handler
    /\ stack = ConnIdle.stack
    /\ ghost = ConnIdle.ghost
    /\ ca_cache = CAIdle.cache
    /\ ca_group = CAIdle.group
    /\ ca_calls = CAIdle.calls
    /\ ca_g = CAIdle.g
    /\ ca_issued = CAIdle.issued
    /\ srv = AuxIdle.srv
    /\ hs = AuxIdle.hs
    /\ tr = AuxIdle.tr
    /\ reg = AuxIdle.reg
    /\ h2 = AuxIdle.h2
    /\ fwd = AuxIdle.fwd
    /\ sp = AuxIdle.sp
    /\ up = AuxIdle.up

\* a CA with an empty cache and no call in flight
InitCA ==
    /\ ca_cache = [c \in CommonNames |-> 0]
    /\ ca_group = [c \in CommonNames |-> 0]
    /\ ca_calls = <<>>
    /\ ca_g = [p \in Callers |-> [pc |-> "idle", cn |-> "none", call |-> 0, ret |-> 0, err |-> FALSE]]
    /\ ca_issued = <<>>
    /\ rtb_src = RTBIdle.src
    /\ rtb_limit = RTBIdle.limit
    /\ rtb_res = RTBIdle.res
    /\ rtb_out = RTBIdle.out
    /\ rtb_st = RTBIdle.st
    /\ kind = FlowIdle.kind
    /\ pc = FlowIdle.pc
    /\ idx = FlowIdle.idx
    /\ f = FlowIdle.f
    /\ connCtx = FlowIdle.connCtx
    /\ inp = FlowIdle.inp
    /\ trace = FlowIdle.trace
    /\ hist = FlowIdle.hist
    /\ accepted = ConnIdle.accepted
    /\ events = ConnIdle.events
    /\ wcc = ConnIdle.wcc
    /\ wsc = ConnIdle.wsc
    /\ cc = ConnIdle.cc
    /\ handler = ConnIdle.handler
    /\ stack = ConnIdle.stack
    /\ ghost = ConnIdle.ghost
    /\ srv = AuxIdle.srv
    /\ hs = AuxIdle.hs
    /\ tr = AuxIdle.tr
    /\ reg = AuxIdle.reg
    /\ h2 = AuxIdle.h2
    /\ fwd = AuxIdle.fwd
    /\ sp = AuxIdle.sp
    /\ up = AuxIdle.up

Spec == InitConn /\ [][NextConn]_vars

SpecRTB == InitRTB /\ [][NextRTB]_vars

SpecFlow == InitFlow /\ [][NextFlow]_vars

SpecCA == InitCA /\ [][NextCA]_vars

\* addonregistry.New, and the goroutines that will use the registry
InitRegistry ==
    /\ reg = [addons |-> [arr |-> 1, len |-> 0], heap |-> << <<>> >>,
              writer |-> <<>>, readers |-> {}, added |-> <<>>,
              g |-> [p \in Adders \cup Users |->
                      [pc |-> "idle", snap |-> [arr |-> 1, len |-> 0], got |-> <<>>,
                       i |-> 0, calls |-> <<>>]]]
    /\ srv = AuxIdle.srv
    /\ hs = AuxIdle.hs
    /\ tr = AuxIdle.tr
    /\ h2 = AuxIdle.h2
    /\ rtb_src = RTBIdle.src
    /\ rtb_limit = RTBIdle.limit
    /\ rtb_res = RTBIdle.res
    /\ rtb_out = RTBIdle.out
    /\ rtb_st = RTBIdle.st
    /\ kind = FlowIdle.kind
    /\ pc = FlowIdle.pc
    /\ idx = FlowIdle.idx
    /\ f = FlowIdle.f
    /\ connCtx = FlowIdle.connCtx
    /\ inp = FlowIdle.inp
    /\ trace = FlowIdle.trace
    /\ hist = FlowIdle.hist
    /\ accepted = ConnIdle.accepted
    /\ events = ConnIdle.events
    /\ wcc = ConnIdle.wcc
    /\ wsc = ConnIdle.wsc
    /\ cc = ConnIdle.cc
    /\ handler = ConnIdle.handler
    /\ stack = ConnIdle.stack
    /\ ghost = ConnIdle.ghost
    /\ ca_cache = CAIdle.cache
    /\ ca_group = CAIdle.group
    /\ ca_calls = CAIdle.calls
    /\ ca_g = CAIdle.g
    /\ ca_issued = CAIdle.issued
    /\ fwd = AuxIdle.fwd
    /\ sp = AuxIdle.sp
    /\ up = AuxIdle.up

SpecRegistry == InitRegistry /\ [][NextRegistry]_vars

\* conn.NewContext: FlowCount is zero; no stream has a request yet
InitStreams ==
    /\ h2 = [FlowCount |-> 0,
             s |-> [x \in Streams |-> [pc |-> "idle", counted |-> 0, served |-> 0]]]
    /\ reg = AuxIdle.reg
    /\ srv = AuxIdle.srv
    /\ hs = AuxIdle.hs
    /\ tr = AuxIdle.tr
    /\ rtb_src = RTBIdle.src
    /\ rtb_limit = RTBIdle.limit
    /\ rtb_res = RTBIdle.res
    /\ rtb_out = RTBIdle.out
    /\ rtb_st = RTBIdle.st
    /\ kind = FlowIdle.kind
    /\ pc = FlowIdle.pc
    /\ idx = FlowIdle.idx
    /\ f = FlowIdle.f
    /\ connCtx = FlowIdle.connCtx
    /\ inp = FlowIdle.inp
    /\ trace = FlowIdle.trace
    /\ hist = FlowIdle.hist
    /\ accepted = ConnIdle.accepted
    /\ events = ConnIdle.events
    /\ wcc = ConnIdle.wcc
    /\ wsc = ConnIdle.wsc
    /\ cc = ConnIdle.cc
    /\ handler = ConnIdle.handler
    /\ stack = ConnIdle.stack
    /\ ghost = ConnIdle.ghost
    /\ ca_cache = CAIdle.cache
    /\ ca_group = CAIdle.group
    /\ ca_calls = CAIdle.calls
    /\ ca_g = CAIdle.g
    /\ ca_issued = CAIdle.issued
    /\ fwd = AuxIdle.fwd
    /\ sp = AuxIdle.sp
    /\ up = AuxIdle.up

SpecStreams == InitStreams /\ [][NextStreams]_vars

\* the client's ClientHello has arrived on an intercepted tunnel. In
\* dial-first mode HTTPSDial has set the server connection; in lazy mode the
\* context holds one only if an earlier plain request on the connection dialed
InitALPN ==
    /\ \E mode \in {"dialfirst", "lazy"}, offers \in ClientOffers, sc \in BOOLEAN :
         /\ (mode = "dialfirst" => sc)
         /\ hs = [pc |-> IF mode = "dialfirst" THEN "serverTLSHandshake"
                         ELSE "GetConfigForClient",
                  mode |-> mode, clientProtos |-> offers, hasServerConn |-> sc,
                  serverTLS |-> "none", upstream |-> "", config |-> FALSE,
                  serverTLSAtConfig |-> "none", NextProtos |-> <<>>,
                  negotiated |-> "", target |-> "none"]
    /\ reg = AuxIdle.reg
    /\ srv = AuxIdle.srv
    /\ tr = AuxIdle.tr
    /\ h2 = AuxIdle.h2
    /\ rtb_src = RTBIdle.src
    /\ rtb_limit = RTBIdle.limit
    /\ rtb_res = RTBIdle.res
    /\ rtb_out = RTBIdle.out
    /\ rtb_st = RTBIdle.st
    /\ kind = FlowIdle.kind
    /\ pc = FlowIdle.pc
    /\ idx = FlowIdle.idx
    /\ f = FlowIdle.f
    /\ connCtx = FlowIdle.connCtx
    /\ inp = FlowIdle.inp
    /\ trace = FlowIdle.trace
    /\ hist = FlowIdle.hist
    /\ accepted = ConnIdle.accepted
    /\ events = ConnIdle.events
    /\ wcc = ConnIdle.wcc
    /\ wsc = ConnIdle.wsc
    /\ cc = ConnIdle.cc
    /\ handler = ConnIdle.handler
    /\ stack = ConnIdle.stack
    /\ ghost = ConnIdle.ghost
    /\ ca_cache = CAIdle.cache
    /\ ca_group = CAIdle.group
    /\ ca_calls = CAIdle.calls
    /\ ca_g = CAIdle.g
    /\ ca_issued = CAIdle.issued
    /\ fwd = AuxIdle.fwd
    /\ sp = AuxIdle.sp
    /\ up = AuxIdle.up

SpecALPN == InitALPN /\ [][NextALPN]_vars

\* transfer has started both copy goroutines and waits on errChan; whether
\* the client connection is a wrapClientConn depends on the build
InitTransfer ==
    /\ \E w \in BOOLEAN :
         tr = [client |-> "open", server |-> "open",
               pending |-> [client |-> FALSE, server |-> FALSE],
               closed |-> [client |-> FALSE, server |-> FALSE],
               shut |-> FALSE, isWrapClientConn |-> w,
               a |-> "copy", b |-> "copy", err |-> [a |-> FALSE, b |-> FALSE],
               main |-> "recv", i |-> 0, done |-> FALSE]
    /\ reg = AuxIdle.reg
    /\ srv = AuxIdle.srv
    /\ hs = AuxIdle.hs
    /\ h2 = AuxIdle.h2
    /\ rtb_src = RTBIdle.src
    /\ rtb_limit = RTBIdle.limit
    /\ rtb_res = RTBIdle.res
    /\ rtb_out = RTBIdle.out
    /\ rtb_st = RTBIdle.st
    /\ kind = FlowIdle.kind
    /\ pc = FlowIdle.pc
    /\ idx = FlowIdle.idx
    /\ f = FlowIdle.f
    /\ connCtx = FlowIdle.connCtx
    /\ inp = FlowIdle.inp
    /\ trace = FlowIdle.trace
    /\ hist = FlowIdle.hist
    /\ accepted = ConnIdle.accepted
    /\ events = ConnIdle.events
    /\ wcc = ConnIdle.wcc
    /\ wsc = ConnIdle.wsc
    /\ cc = ConnIdle.cc
    /\ handler = ConnIdle.handler
    /\ stack = ConnIdle.stack
    /\ ghost = ConnIdle.ghost
    /\ ca_cache = CAIdle.cache
    /\ ca_group = CAIdle.group
    /\ ca_calls = CAIdle.calls
    /\ ca_g = CAIdle.g
    /\ ca_issued = CAIdle.issued
    /\ fwd = AuxIdle.fwd
    /\ sp = AuxIdle.sp
    /\ up = AuxIdle.up

SpecTransfer == InitTransfer /\ [][NextTransfer]_vars

\* Proxy.Start has returned into the accept loop; an authentication function
\* is configured or not
InitProxy ==
    /\ \E auth \in BOOLEAN :
         srv = [proc |-> "running", entry |-> "serving", listener |-> "open",
                authProxy |-> auth, reqs |-> 0, panics |-> {},
                conns |-> [c \in Conns |->
                             [st |-> "none", pc |-> "idle", upstream |-> "none",
                              req |-> [method |-> "none", authFailed |-> FALSE],
                              flow |-> "none", log |-> <<>>]]]
    /\ reg = AuxIdle.reg
    /\ hs = AuxIdle.hs
    /\ tr = AuxIdle.tr
    /\ h2 = AuxIdle.h2
    /\ rtb_src = RTBIdle.src
    /\ rtb_limit = RTBIdle.limit
    /\ rtb_res = RTBIdle.res
    /\ rtb_out = RTBIdle.out
    /\ rtb_st = RTBIdle.st
    /\ kind = FlowIdle.kind
    /\ pc = FlowIdle.pc
    /\ idx = FlowIdle.idx
    /\ f = FlowIdle.f
    /\ connCtx = FlowIdle.connCtx
    /\ inp = FlowIdle.inp
    /\ trace = FlowIdle.trace
    /\ hist = FlowIdle.hist
    /\ accepted = ConnIdle.accepted
    /\ events = ConnIdle.events
    /\ wcc = ConnIdle.wcc
    /\ wsc = ConnIdle.wsc
    /\ cc = ConnIdle.cc
    /\ handler = ConnIdle.handler
    /\ stack = ConnIdle.stack
    /\ ghost = ConnIdle.ghost
    /\ ca_cache = CAIdle.cache
    /\ ca_group = CAIdle.group
    /\ ca_calls = CAIdle.calls
    /\ ca_g = CAIdle.g
    /\ ca_issued = CAIdle.issued
    /\ fwd = AuxIdle.fwd
    /\ sp = AuxIdle.sp
    /\ up = AuxIdle.up

SpecProxy == InitProxy /\ [][NextProxy]_vars

\* ------------------------------------------------------------------------
\* The two Close methods alone, called concurrently
\* ------------------------------------------------------------------------
\* one statement of a Close call that goroutine p is in
CloseStep(p) ==
    \/ ClientCloseLock(p)
    \/ ClientCloseCrit(p)
    \/ ClientCloseChan(p)
    \/ ClientCloseNotify(p)
    \/ ClientCloseServer(p)
    \/ ClientCloseRet(p)
    \/ ServerCloseLock(p)
    \/ ServerCloseCrit(p)
    \/ ServerCloseNotify(p)
    \/ ServerCloseClient(p)
    \/ ServerCloseRet(p)

NextClose ==
    \/ \E p \in Closers : CallClientClose(p)
    \/ \E p \in Closers : CallServerClose(p)
    \/ \E p \in Closers : CloseStep(p)

\* an accepted connection whose handler is not touching the context: it has
\* a server connection or none, and its client is TLS or not
InitClose ==
    /\ accepted = TRUE
    /\ wcc = [closed |-> FALSE, mu |-> "free", rawCloses |-> 0, chanCloses |-> 0,
              readClosed |-> FALSE]
    /\ \E n \in 0..1, tls \in BOOLEAN, car \in BOOLEAN :
          /\ wsc = [k \in 1..n |-> NewWrapServerConn]
          /\ cc = [ServerConn |-> n, DialFn |-> "nil", TLS |-> tls,
                   CloseAfterResponse |-> car]
          /\ events = <<CC>> \o [k \in 1..n |-> SC(k)]
          /\ ghost = [calls |-> 0, clientClosedBy |-> "none",
                      serverClosedBy |-> [k \in 1..n |-> "none"], clientReturns |-> 0,
                      closerDone |-> FALSE, reentered |-> FALSE, flows |-> <<"connect">>,
                      scFlow |-> [k \in 1..n |-> 1], reached |-> {}]
    /\ handler = [pc |-> "done", via |-> "entry", mode |-> "none", reqs |-> 1]
    /\ stack = [p \in Closers |-> <<>>]
    /\ rtb_src = RTBIdle.src
    /\ rtb_limit = RTBIdle.limit
    /\ rtb_res = RTBIdle.res
    /\ rtb_out = RTBIdle.out
    /\ rtb_st = RTBIdle.st
    /\ kind = FlowIdle.kind
    /\ pc = FlowIdle.pc
    /\ idx = FlowIdle.idx
    /\ f = FlowIdle.f
    /\ connCtx = FlowIdle.connCtx
    /\ inp = FlowIdle.inp
    /\ trace = FlowIdle.trace
    /\ hist = FlowIdle.hist
    /\ ca_cache = CAIdle.cache
    /\ ca_group = CAIdle.group
    /\ ca_calls = CAIdle.calls
    /\ ca_g = CAIdle.g
    /\ ca_issued = CAIdle.issued
    /\ srv = AuxIdle.srv
    /\ hs = AuxIdle.hs
    /\ tr = AuxIdle.tr
    /\ reg = AuxIdle.reg
    /\ h2 = AuxIdle.h2
    /\ fwd = AuxIdle.fwd
    /\ sp = AuxIdle.sp
    /\ up = AuxIdle.up

\* the Go scheduler runs every goroutine that can take a step
SpecClose ==
    /\ InitClose
    /\ [][NextClose]_vars
    /\ \A p \in Closers : WF_vars(CloseStep(p))

\* one step of the goroutine that serves the client connection
HandlerStep ==
    \/ Accept
    \/ EntryServeHTTP
    \/ HTTPSDial
    \/ PeekClient
    \/ TunnelServeHTTP
    \/ ExecuteRequest
    \/ DialFnReturn
    \/ UpstreamExchange
    \/ TransferEnd

\* the connection lifecycle when every goroutine that can take a step does;
\* whether a background goroutine calls Close at all is left open
SpecConnFair ==
    /\ InitConn
    /\ [][NextConn]_vars
    /\ WF_vars(HandlerStep)
    /\ \A p \in Closers : WF_vars(CloseStep(p))

\* one call of GetUpstreamConn; what the network will do is fixed up front
InitUpstream ==
    /\ \E scheme \in UpstreamSchemes, dial \in BOOLEAN, tls \in BOOLEAN, write \in BOOLEAN,
          reply \in ConnectReplies :
          up = [pc |-> "start", scheme |-> scheme,
                outcome |-> [dial |-> dial, tls |-> tls, write |-> write, reply |-> reply],
                conn |-> "nil", g |-> "idle", resp |-> "none", err |-> "nil",
                ret |-> [conn |-> "nil", err |-> "nil"], status |-> 0]
    /\ reg = AuxIdle.reg
    /\ srv = AuxIdle.srv
    /\ hs = AuxIdle.hs
    /\ tr = AuxIdle.tr
    /\ h2 = AuxIdle.h2
    /\ rtb_src = RTBIdle.src
    /\ rtb_limit = RTBIdle.limit
    /\ rtb_res = RTBIdle.res
    /\ rtb_out = RTBIdle.out
    /\ rtb_st = RTBIdle.st
    /\ kind = FlowIdle.kind
    /\ pc = FlowIdle.pc
    /\ idx = FlowIdle.idx
    /\ f = FlowIdle.f
    /\ connCtx = FlowIdle.connCtx
    /\ inp = FlowIdle.inp
    /\ trace = FlowIdle.trace
    /\ hist = FlowIdle.hist
    /\ accepted = ConnIdle.accepted
    /\ events = ConnIdle.events
    /\ wcc = ConnIdle.wcc
    /\ wsc = ConnIdle.wsc
    /\ cc = ConnIdle.cc
    /\ handler = ConnIdle.handler
    /\ stack = ConnIdle.stack
    /\ ghost = ConnIdle.ghost
    /\ ca_cache = CAIdle.cache
    /\ ca_group = CAIdle.group
    /\ ca_calls = CAIdle.calls
    /\ ca_g = CAIdle.g
    /\ ca_issued = CAIdle.issued
    /\ fwd = AuxIdle.fwd
    /\ sp = AuxIdle.sp

SpecUpstream == InitUpstream /\ [][NextUpstream]_vars

\* an accepted client connection that has sent nothing yet
InitForward ==
    /\ fwd = [pc |-> "idle", n |-> 0, DialFn |-> 0, ServerConn |-> 0,
              req |-> [rawHost |-> 0, urlHost |-> 0, UseSeparateClient |-> FALSE],
              dials |-> <<>>, sent |-> <<>>]
    /\ reg = AuxIdle.reg
    /\ srv = AuxIdle.srv
    /\ hs = AuxIdle.hs
    /\ tr = AuxIdle.tr
    /\ h2 = AuxIdle.h2
    /\ rtb_src = RTBIdle.src
    /\ rtb_limit = RTBIdle.limit
    /\ rtb_res = RTBIdle.res
    /\ rtb_out = RTBIdle.out
    /\ rtb_st = RTBIdle.st
    /\ kind = FlowIdle.kind
    /\ pc = FlowIdle.pc
    /\ idx = FlowIdle.idx
    /\ f = FlowIdle.f
    /\ connCtx = FlowIdle.connCtx
    /\ inp = FlowIdle.inp
    /\ trace = FlowIdle.trace
    /\ hist = FlowIdle.hist
    /\ accepted = ConnIdle.accepted
    /\ events = ConnIdle.events
    /\ wcc = ConnIdle.wcc
    /\ wsc = ConnIdle.wsc
    /\ cc = ConnIdle.cc
    /\ handler = ConnIdle.handler
    /\ stack = ConnIdle.stack
    /\ ghost = ConnIdle.ghost
    /\ ca_cache = CAIdle.cache
    /\ ca_group = CAIdle.group
    /\ ca_calls = CAIdle.calls
    /\ ca_g = CAIdle.g
    /\ ca_issued = CAIdle.issued
    /\ sp = AuxIdle.sp
    /\ up = AuxIdle.up

SpecForward == InitForward /\ [][NextForward]_vars

\* HTTPSTLSDial has made its channels and started the handshake goroutine;
\* the client is TLS, both sockets are open, and the client's ClientHello
\* will carry one of the ALPN lists
InitSplice ==
    /\ \E offers \in ClientOffers :
         sp = [main |-> "select1", h |-> "readHello", errChan1 |-> 0, errChan2 |-> 0,
               done |-> FALSE, cconn |-> "open", sconn |-> "open", ctxDone |-> FALSE,
               clientFailed |-> FALSE, serverFailed |-> FALSE,
               clientProtos |-> offers, upstream |-> "none", nextProtos |-> <<>>,
               negotiated |-> "none"]
    /\ reg = AuxIdle.reg
    /\ srv = AuxIdle.srv
    /\ hs = AuxIdle.hs
    /\ tr = AuxIdle.tr
    /\ h2 = AuxIdle.h2
    /\ rtb_src = RTBIdle.src
    /\ rtb_limit = RTBIdle.limit
    /\ rtb_res = RTBIdle.res
    /\ rtb_out = RTBIdle.out
    /\ rtb_st = RTBIdle.st
    /\ kind = FlowIdle.kind
    /\ pc = FlowIdle.pc
    /\ idx = FlowIdle.idx
    /\ f = FlowIdle.f
    /\ connCtx = FlowIdle.connCtx
    /\ inp = FlowIdle.inp
    /\ trace = FlowIdle.trace
    /\ hist = FlowIdle.hist
    /\ accepted = ConnIdle.accepted
    /\ events = ConnIdle.events
    /\ wcc = ConnIdle.wcc
    /\ wsc = ConnIdle.wsc
    /\ cc = ConnIdle.cc
    /\ handler = ConnIdle.handler
    /\ stack = ConnIdle.stack
    /\ ghost = ConnIdle.ghost
    /\ ca_cache = CAIdle.cache
    /\ ca_group = CAIdle.group
    /\ ca_calls = CAIdle.calls
    /\ ca_g = CAIdle.g
    /\ ca_issued = CAIdle.issued
    /\ fwd = AuxIdle.fwd
    /\ up = AuxIdle.up

\* both goroutines are scheduled; a handshake's reads and writes return
SpecSplice ==
    /\ InitSplice
    /\ [][NextSplice]_vars
    /\ WF_vars(SpliceMainStep)
    /\ WF_vars(SpliceHandshakeStep)

\* ------------------------------------------------------------------------
\* Properties
\* ------------------------------------------------------------------------
IsPipeline == kind = "pipeline"
\* the request / response body stage of the pipeline ran to its end without a
\* read error (the hook loop, if any, is over or was left)
ReqStageDone == hist.reqRead \in {"skipped", "stream", "buffered"} /\ pc # "Request"
ResStageDone == hist.resRead \in {"skipped", "stream", "buffered"} /\ pc # "Response"

\* rank of an event in the order of a flow's hooks; 0 for the other events
Rank(e) ==
    CASE e[1] = "Requestheaders"         -> 1
      [] e[1] = "Request"                -> 2
      [] e[1] = "StreamRequestModifier"  -> 3
      [] e[1] = "Responseheaders"        -> 4
      [] e[1] = "Response"               -> 5
      [] e[1] = "StreamResponseModifier" -> 6
      [] e[1] = "Finish"                 -> 7
      [] OTHER                           -> 0

ServerConnectedCount == Cardinality({i \in 1..Len(events) : events[i][1] = "ServerConnected"})
ServerDisconnectedCount == Cardinality({i \in 1..Len(events) : events[i][1] = "ServerDisconnected"})

\* C1: ClientConnected is delivered exactly once for an accepted connection
\* and never before; ClientDisconnected is delivered at most once however many
\* goroutines call Close and however often (CloseChan is closed at most once,
\* the socket is closed at most once), and it has been delivered exactly once
\* as soon as the call that closed the connection has returned.
C1_ClientEventsOnce ==
    /\ Count(events, CC) = (IF accepted THEN 1 ELSE 0)
    /\ Count(events, CD) <= 1
    /\ wcc.chanCloses <= 1
    /\ wcc.rawCloses <= 1
    /\ Count(events, CD) = 1 => Pos(events, CC) < Pos(events, CD)
    /\ ghost.closerDone => Count(events, CD) = 1

\* several Close calls on the client wrapper have returned, one of them made
\* by the server wrapper's Close, and one ClientDisconnected was delivered
C1_Witness ==
    /\ ghost.clientReturns >= 2
    /\ ghost.reentered
    /\ ghost.closerDone
    /\ \A p \in Closers : stack[p] = <<>>
    /\ Count(events, CD) = 1

\* C2: a connection context sees ServerConnected at most once and
\* ServerDisconnected at most once
C2_ServerEventsOnce ==
    /\ ServerConnectedCount <= 1
    /\ ServerDisconnectedCount <= 1

C11_SameCertOneIssuance ==
    \A c \in CommonNames :
       /\ Cardinality(IssuedFor(c)) <= 1
       /\ \A p, q \in Callers :
            (/\ ca_g[p].pc = "returned" /\ ca_g[q].pc = "returned"
             /\ ca_g[p].cn = c /\ ca_g[q].cn = c
             /\ ~ca_g[p].err /\ ~ca_g[q].err) => ca_g[p].ret = ca_g[q].ret

\* C12 (as stated): ClientConnected precedes ServerConnected, and
\* ServerConnected precedes every Requestheaders of the connection
C12_ConnectedBeforeRequestheaders ==
    \A k \in 1..Len(wsc) :
       Pos(events, SC(k)) > 0 =>
          /\ Pos(events, CC) < Pos(events, SC(k))
          /\ \A n \in 1..Len(ghost.flows) :
               Pos(events, RH(n)) > 0 => Pos(events, SC(k)) < Pos(events, RH(n))

\* C12 (amended): ClientConnected is the first event of a connection, before
\* ServerConnected and before every Requestheaders; a ServerConnected precedes
\* the Requestheaders of every flow decrypted from a dial-first tunnel
C12_ClientConnectedFirst ==
    /\ Len(events) > 0 => events[1] = CC
    /\ \A k \in 1..Len(wsc) : Pos(events, CC) < Pos(events, SC(k))
    /\ \A n \in 1..Len(ghost.flows) :
         /\ Pos(events, CC) < Pos(events, RH(n))
         /\ (ghost.flows[n] = "tunnel" /\ handler.mode = "dialfirst") =>
               \E k \in 1..Len(wsc) :
                  Pos(events, SC(k)) > 0 /\ Pos(events, SC(k)) < Pos(events, RH(n))

\* a request decrypted from a dial-first tunnel has had its Requestheaders
C12_Witness ==
    /\ handler.mode = "dialfirst"
    /\ \E n \in 1..Len(ghost.flows) : ghost.flows[n] = "tunnel" /\ Pos(events, RH(n)) > 0

\* C13: on a connection that carried plain-HTTP proxy requests only, the
\* Requestheaders of the first flow precedes every ServerConnected, and a
\* ServerConnected is delivered only during a flow that reached the
\* upstream-request step
C13_PlainHTTPLazyDial ==
    (\A n \in 1..Len(ghost.flows) : ghost.flows[n] = "plain") =>
       \A k \in 1..Len(wsc) :
          /\ Pos(events, SC(k)) > 0
          /\ Pos(events, RH(1)) > 0
          /\ Pos(events, RH(1)) < Pos(events, SC(k))
          /\ ghost.scFlow[k] \in ghost.reached

\* two plain requests: the first ended before the upstream step, the second
\* dialed
C13_Witness ==
    /\ Len(ghost.flows) = 2
    /\ \A n \in 1..Len(ghost.flows) : ghost.flows[n] = "plain"
    /\ Len(wsc) = 1
    /\ ghost.scFlow[1] = 2
    /\ ghost.reached = {2}

\* C14: in dial-first mode ServerConnected and TLSEstablishedServer of the
\* connection's server connection precede the Requestheaders of every request
\* decrypted from the client
C14_DialFirstOrder ==
    handler.mode = "dialfirst" =>
       \A n \in 1..Len(ghost.flows) :
          ghost.flows[n] = "tunnel" =>
             /\ cc.ServerConn # 0
             /\ Pos(events, SC(cc.ServerConn)) > 0
             /\ Pos(events, TLSE(cc.ServerConn)) > 0
             /\ Pos(events, SC(cc.ServerConn)) < Pos(events, RH(n))
             /\ Pos(events, TLSE(cc.ServerConn)) < Pos(events, RH(n))

\* the first request decrypted from a dial-first tunnel is in Attack
C14_Witness ==
    /\ handler.mode = "dialfirst"
    /\ cc.TLS
    /\ handler.pc = "attack"
    /\ ghost.flows[Len(ghost.flows)] = "tunnel"

\* C15: in lazy mode no ServerConnected has been delivered when the tunnel is
\* established and the client handshake is served with a certificate of the
\* CA, and the Requestheaders of the first decrypted flow precedes every
\* ServerConnected
C15_LazyNoUpstreamBeforeRequest ==
    handler.mode = "lazy" =>
       \A k \in 1..Len(wsc) :
          /\ Pos(events, GetCert) > 0 => Pos(events, GetCert) < Pos(events, SC(k))
          /\ \A n \in 1..Len(ghost.flows) :
               (ghost.flows[n] = "connect" /\ Pos(events, SC(k)) > 0)
                  => Pos(events, Established(n)) < Pos(events, SC(k))

\* C4: for every flow, pipeline or CONNECT, Finish closes the completion
\* signal exactly once by the time the handler has left (normally, after an
\* addon short-circuit, after an error reply, or unwinding from a panic), and
\* never before the handler is done with the flow: once it has fired the
\* handler runs no stage, hook, dial or write for the flow any more.
C4_FinishExactlyOnce ==
    kind \in {"pipeline", "connect"} =>
      /\ hist.done <= 1
      /\ CountEv("Finish") = hist.done
      /\ (pc \in {"returned", "crashed"} => hist.done = 1)
      /\ (hist.done = 1 =>
            /\ pc \in {"defers", "returned", "crashed"}
            /\ \A i \in (FirstEv("Finish") + 1)..Len(trace) : trace[i][1] = "recover")

\* a pipeline flow in which an addon hook panicked has returned, recovered,
\* with its completion signal fired
C4_Witness ==
    /\ IsPipeline /\ pc = "returned" /\ hist.panicked /\ hist.done = 1
    /\ HasEv("recover") /\ HasEv("Do")

\* C5: within a pipeline flow the hooks come in the order Requestheaders,
\* Request, (StreamRequestModifier,) Responseheaders, Response,
\* (StreamResponseModifier,) completion signal; Request is delivered only when
\* the request body was buffered, Response only when the response body was
\* buffered; nothing is delivered after the completion signal.
C5_HookOrder ==
    IsPipeline =>
      /\ \A i, j \in 1..Len(trace) :
            (i < j /\ Rank(trace[i]) > 0 /\ Rank(trace[j]) > 0)
               => Rank(trace[i]) <= Rank(trace[j])
      /\ (HasEv("Request") => hist.reqRead = "buffered" /\ f.ReqBody)
      /\ (HasEv("Response") => hist.resRead = "buffered")

\* a flow that went through all four hooks for every addon and completed
C5_Witness ==
    /\ IsPipeline /\ pc = "returned" /\ hist.done = 1 /\ ~hist.panicked
    /\ \A a \in Addons : \A h \in {"Requestheaders", "Request", "Responseheaders", "Response"} :
          \E i \in 1..Len(trace) : trace[i] = Ev(h, a)

\* C6 as stated: for a pipeline flow that got through the body stage, the
\* Request hook is invoked iff the request body is shorter than
\* streamLargeBodies, and the Response hook iff the response body is.
C6_HooksIffBodyFits ==
    IsPipeline =>
      /\ (ReqStageDone => (HasEv("Request") <=> hist.reqLen < inp.limit))
      /\ (ResStageDone => (HasEv("Response") <=> hist.resLen < inp.limit))

\* C6 amended: for a pipeline flow that got through the body stage without a
\* read error, the Request hook is invoked iff Flow.Stream was not set when
\* the request body stage began and the request body is shorter than
\* streamLargeBodies; the Response hook is invoked iff Flow.Stream was not set
\* when the response body stage began (by an addon or by the request body
\* having been streamed) and the response body is shorter than the threshold.
C6_HooksIffBufferedAndFits ==
    IsPipeline =>
      /\ (ReqStageDone =>
            (HasEv("Request") <=> (~hist.streamAtReq /\ hist.reqLen < inp.limit)))
      /\ (ResStageDone =>
            (HasEv("Response") <=> (~hist.streamAtRes /\ hist.resLen < inp.limit)))

\* a flow whose request body was streamed by the pipeline, so that its short
\* response body was not buffered and the Response hook was skipped
C6_Witness ==
    /\ IsPipeline /\ pc = "returned" /\ ResStageDone
    /\ hist.flipReq /\ hist.streamAtRes /\ hist.resLen < inp.limit
    /\ ~HasEv("Response") /\ ~HasEv("Request")

\* C7: when the pipeline examines a body (the flow is not in stream mode yet
\* and the read does not fail), it sets Flow.Stream exactly when the body is
\* streamLargeBodies bytes long or longer, and leaves it alone for a shorter one.
C7_StreamIffAtLeastLimit ==
    IsPipeline =>
      /\ (hist.reqRead \in {"stream", "buffered"} =>
            /\ (hist.reqLen >= inp.limit <=> hist.flipReq)
            /\ (hist.reqLen >= inp.limit => f.Stream))
      /\ (hist.resRead \in {"stream", "buffered"} =>
            /\ (hist.resLen >= inp.limit <=> hist.flipRes)
            /\ (hist.resLen >= inp.limit => f.Stream))
      /\ (hist.flipReq => hist.reqLen >= inp.limit)
      /\ (hist.flipRes => hist.resLen >= inp.limit)

\* a request body of exactly streamLargeBodies bytes switched the flow to
\* stream mode, and another flow buffered a body one byte shorter
C7_Witness ==
    /\ IsPipeline /\ hist.reqRead = "stream" /\ hist.reqLen = inp.limit
    /\ hist.flipReq /\ f.Stream /\ pc = "returned"

\* C8: ReaderToBuffer(r, n), n >= 0, whose copy does not fail: a source shorter
\* than n comes back as its whole content and no reader; a source of n bytes
\* or more comes back as no bytes and a reader, and what that reader yields is
\* always a prefix of the source and, at EOF, the source itself.
C8_ReaderToBufferRoundTrip ==
    (rtb_st \in {"returned", "eof", "err"} /\ ~rtb_res.err) =>
      IF Len(rtb_src.data) < rtb_limit
      THEN /\ ~rtb_res.bufNil /\ rtb_res.buf = rtb_src.data
           /\ rtb_res.readerNil
      ELSE /\ rtb_res.bufNil /\ ~rtb_res.readerNil
           /\ rtb_out = Take(rtb_src.data, Len(rtb_out))
           /\ (rtb_st = "eof" => rtb_out = rtb_src.data)

\* a source longer than the limit was read back to EOF through the returned
\* reader: buffered prefix and unread remainder are both non-empty
C8_Witness ==
    /\ rtb_st = "eof" /\ rtb_limit > 0 /\ Len(rtb_src.data) > rtb_limit
    /\ rtb_out = rtb_src.data

\* C9: when an addon sets Flow.Response in Requestheaders or Request, the
\* pipeline neither invokes the dial function nor sends an upstream request
\* for that flow, and the one reply it writes is the addon's response.
C9_ShortCircuitSkipsUpstream ==
    (IsPipeline /\ hist.early \in {"Requestheaders", "Request"}) =>
      /\ ~HasEv("Dial") /\ ~HasEv("Do")
      /\ (\A i \in 1..Len(trace) : trace[i][1] = "WriteHeader" => trace[i][2] = 200)
      /\ (pc \in {"returned", "crashed"} =>
            CountEv("WriteHeader") = 1 /\ hist.replied = "addon")

\* an addon answered in the Request hook on a connection whose upstream was
\* never dialed; the flow returned with the addon's reply
C9_Witness ==
    /\ IsPipeline /\ pc = "returned" /\ hist.early = "Request"
    /\ hist.replied = "addon" /\ connCtx.ServerConn = "nil" /\ connCtx.DialFn # "nil"

\* C10: a pipeline flow writes at most one response to the client, invokes the
\* dial function at most once and executes the upstream request at most once;
\* after a dial, upstream or body-read failure the one response is the error
\* status (502 or 407), it is the last thing the pipeline does before its
\* deferred calls, and the flow returns.
C10_OneResponseNoRetry ==
    IsPipeline =>
      /\ CountEv("WriteHeader") <= 1
      /\ CountEv("Do") <= 1
      /\ CountEv("Dial") <= 1
      /\ (hist.failure # "none" =>
            /\ CountEv("WriteHeader") = 1
            /\ trace[FirstEv("WriteHeader")][2] \in {502, 407}
            /\ pc \in {"return", "defers", "returned", "crashed"}
            /\ \A i \in (FirstEv("WriteHeader") + 1)..Len(trace) :
                  trace[i][1] \in {"BodyClose", "Finish", "recover"})

\* the upstream exchange failed after a successful dial: one 502, one Do
C10_Witness ==
    /\ IsPipeline /\ pc = "returned" /\ hist.failure = "do"
    /\ CountEv("Dial") = 1 /\ CountEv("Do") = 1
    /\ CountEv("WriteHeader") = 1 /\ trace[FirstEv("WriteHeader")][2] = 502

\* C16: every CONNECT whose Requestheaders hooks have returned is handled in
\* exactly one mode, fixed by shouldIntercept(request) and by UpstreamCert as
\* the hooks left it: not intercepted is the opaque tunnel (upstream through
\* the upstream manager, no peek, no certificate, never TLS, no pipeline);
\* intercepted with UpstreamCert dials before the tunnel is established;
\* intercepted without UpstreamCert establishes the tunnel before any dial.
\* Before the branch nothing of any mode has happened.
C16_OneModePerConnect ==
    kind = "connect" =>
      /\ (hist.mode = "none" =>
            ~HasEv("GetUpstreamConn") /\ ~HasEv("Dial") /\ ~HasEv("Hijack"))
      /\ (hist.mode # "none" =>
            /\ CountEv("Requestheaders") = NumAddons
            /\ hist.mode = (IF ~hist.shouldIntercept THEN "direct"
                            ELSE IF hist.certAtBranch THEN "dialfirst" ELSE "lazy"))
      /\ (hist.mode = "direct" =>
            /\ ~HasEv("Dial") /\ ~HasEv("GetCert") /\ ~HasEv("serveConn")
            /\ ~connCtx.TLS /\ hist.peek = <<>>)
      /\ (hist.mode \in {"dialfirst", "lazy"} => ~HasEv("GetUpstreamConn"))
      /\ (hist.mode = "dialfirst" /\ HasEv("Hijack") =>
            HasEv("Dial") /\ FirstEv("Dial") < FirstEv("Hijack"))
      /\ (hist.mode = "lazy" /\ HasEv("Dial") =>
            HasEv("Established") /\ FirstEv("Established") < FirstEv("Dial"))

\* an addon cleared UpstreamCert (and another cleared Intercept on the
\* context) in the CONNECT's Requestheaders hook; the CONNECT was intercepted
\* lazily and the decrypted connection was handed to the pipeline
C16_Witness ==
    /\ kind = "connect" /\ pc = "returned" /\ hist.mode = "lazy"
    /\ hist.shouldIntercept /\ ~connCtx.Intercept /\ ~hist.certAtBranch
    /\ HasEv("serveConn")

\* C17: in both interception modes, when the three bytes peeked after the
\* tunnel was established are not a TLS record header (0x16, 0x03, <= 0x03),
\* no certificate is requested, the connection is not marked TLS, the
\* connection is not handed to the pipeline, and the bytes are copied
\* opaquely unless the (lazy) upstream dial failed.
C17_NonTLSPeekIsOpaque ==
    (/\ kind = "connect" /\ hist.mode \in {"dialfirst", "lazy"}
     /\ hist.peek # <<>>
     /\ (hist.peek[1] # 22 \/ hist.peek[2] # 3 \/ hist.peek[3] > 3)) =>
      /\ ~HasEv("GetCert") /\ ~HasEv("serveConn")
      /\ ~connCtx.TLS
      /\ pc # "intercept"
      /\ (pc = "returned" /\ ~hist.panicked =>
            \/ HasEv("transfer")
            \/ hist.mode = "lazy" /\ HasEv("Dial") /\ HasEv("cconn.Close"))

\* a lazily intercepted tunnel whose client sent 0x16 0x03 0x04: the upstream
\* was dialed after the peek and the bytes were copied
C17_Witness ==
    /\ kind = "connect" /\ pc = "returned" /\ hist.mode = "lazy"
    /\ hist.peek = <<22, 3, 4>> /\ HasEv("transfer") /\ HasEv("Dial")

\* C18: in dial-first mode, when the upstream dial fails during the CONNECT,
\* the connection is never hijacked, 200 Connection Established is never
\* written, the one response is an error status, and the connection is never
\* peeked, given a certificate or handed to the pipeline.
C18_DialFirstFailureNoTunnel ==
    (/\ kind = "connect" /\ hist.mode = "dialfirst"
     /\ hist.failure \in {"dial", "dialauth"}) =>
      /\ ~HasEv("Hijack") /\ ~HasEv("Established")
      /\ ~HasEv("GetCert") /\ ~HasEv("serveConn")
      /\ hist.peek = <<>> /\ ~connCtx.TLS
      /\ CountEv("WriteHeader") = 1
      /\ trace[FirstEv("WriteHeader")][2] >= 400
      /\ pc \in {"return", "defers", "returned", "crashed"}

\* the dial-first CONNECT returned after its dial failed
C18_Witness ==
    /\ kind = "connect" /\ pc = "returned" /\ hist.mode = "dialfirst"
    /\ hist.failure = "dial" /\ HasEv("Dial")
    /\ CountEv("WriteHeader") = 1

\* C19: when the upstream dial fails while a CONNECT is handled (opaque tunnel
\* or dial-first) with an error that says Proxy Authentication Required, the
\* client receives 407; for every other dial failure it receives 502.
C19_ConnectDialFailureStatus ==
    (/\ kind = "connect" /\ hist.mode \in {"direct", "dialfirst"}
     /\ hist.failure \in {"dial", "dialauth"}) =>
      /\ CountEv("WriteHeader") = 1
      /\ trace[FirstEv("WriteHeader")][2] =
            (IF hist.failure = "dialauth" THEN 407 ELSE 502)

\* C20: when the dial function invoked by the pipeline fails, the one
\* response is 407 if the error says Proxy Authentication Required and 502
\* otherwise, and the upstream request is never executed for the flow.
C20_PipelineDialFailureStatus ==
    (IsPipeline /\ hist.failure \in {"dial", "dialauth"}) =>
      /\ HasEv("Dial") /\ ~HasEv("Do")
      /\ CountEv("WriteHeader") = 1
      /\ trace[FirstEv("WriteHeader")][2] =
            (IF hist.failure = "dialauth" THEN 407 ELSE 502)

\* a flow decrypted from a lazily intercepted tunnel returned after its dial
\* function failed with Proxy Authentication Required
C20_Witness ==
    /\ IsPipeline /\ pc = "returned" /\ inp.path = "lazy"
    /\ hist.failure = "dialauth" /\ HasEv("Dial")
    /\ trace[FirstEv("WriteHeader")][2] = 407

\* C27: for every pipeline flow whose upstream response is marked
\* connection-close, CloseAfterResponse is set on the connection context and
\* every reply written to the client carries Connection: close.
C27_ConnectionClosePropagated ==
    (IsPipeline /\ hist.proxyResClose) =>
      /\ connCtx.CloseAfterResponse
      /\ (HasEv("WriteHeader") => hist.connectionClose)

\* C28: at every dispatch site the addons are invoked in the order in which
\* Add registered them: the invocations made so far are the first registered
\* addons in registration order, and a finished dispatch invoked exactly the
\* addons registered when its Get ran.
C28_RegistrationOrder ==
    /\ View(reg.heap, reg.addons) = reg.added
    /\ \A p \in Users :
         /\ reg.g[p].calls = SubSeq(reg.added, 1, Len(reg.g[p].calls))
         /\ (reg.g[p].pc = "done" => reg.g[p].calls = reg.g[p].got)

\* both addons were registered, addon 2 first, before a dispatch took its
\* snapshot; the dispatch invoked addon 2 and then addon 1
C28_Witness ==
    \E p \in Users :
      /\ reg.g[p].pc = "done" /\ Len(reg.g[p].calls) >= 2
      /\ reg.g[p].calls[1] = 2 /\ reg.g[p].calls[2] = 1

\* C29: Get copies under the read lock (never while Add holds the write
\* lock); an Add that runs during or after a Get never changes the sequence
\* that Get returned, and overwriting the returned slice never changes the
\* registry or another caller's slice.
C29_GetReturnsStableCopy ==
    /\ ~(reg.writer # <<>> /\ reg.readers # {})
    /\ \A p \in Users : reg.g[p].pc = "copied" => p \in reg.readers
    /\ \A p \in Users :
         reg.g[p].pc \in {"copied", "returned", "dispatch", "done"} =>
           View(reg.heap, reg.g[p].snap) = reg.g[p].got
    /\ View(reg.heap, reg.addons) = reg.added

\* one caller overwrote its slice, every addon was added after another
\* caller's Get returned a non-empty slice, and that slice still shows what
\* Get returned
C29_Witness ==
    \E p, q \in Users :
      /\ reg.g[p].pc = "modified"
      /\ reg.g[q].pc \in {"returned", "dispatch", "done"}
      /\ Len(reg.g[q].got) >= 1 /\ Len(reg.g[q].got) < Len(reg.added)
      /\ View(reg.heap, reg.g[q].snap) = reg.g[q].got

\* C30: FlowCount equals the number of requests that have passed Attack's
\* increment on this connection, whatever the interleaving of the streams:
\* each accepted request adds exactly one and no increment is lost, so the
\* counter never decreases.
C30_FlowCountExact ==
    /\ h2.FlowCount = Cardinality({<<s, k>> \in Streams \X (1..MaxRequests) :
                                     k <= h2.s[s].counted})
    /\ \A s \in Streams :
         h2.s[s].counted = h2.s[s].served + (IF h2.s[s].pc = "pipeline" THEN 1 ELSE 0)

\* every stream is inside the pipeline at once, one of them for its second
\* request
C30_Witness ==
    /\ \A s \in Streams : h2.s[s].pc = "pipeline"
    /\ \E s \in Streams : h2.s[s].served >= 1
    /\ h2.FlowCount > NumStreams

\* C23 as stated: in dial-first mode the config offered to the client is
\* produced after the upstream TLS handshake completed and offers h2 when the
\* upstream negotiated h2 and http/1.1 otherwise.
C23_ALPNMirrorsUpstream ==
    (hs.mode = "dialfirst" /\ hs.config) =>
      /\ hs.serverTLSAtConfig = "done"
      /\ hs.NextProtos = (IF hs.upstream = "h2" THEN <<"h2">> ELSE <<"http/1.1">>)

\* C23, amended: in dial-first mode the config offered to the client is
\* produced after the upstream TLS handshake completed and offers exactly the
\* protocol the upstream negotiated, or no protocol when the upstream
\* negotiated none; a client whose handshake completes negotiates what the
\* upstream negotiated, so it negotiates h2, and is dispatched to the HTTP/2
\* server, only if the upstream negotiated h2.
C23_ALPNMirrorsUpstreamOrNone ==
    hs.mode = "dialfirst" =>
      /\ (hs.config =>
            /\ hs.serverTLSAtConfig = "done"
            /\ hs.NextProtos = (IF hs.upstream = "" THEN <<>> ELSE <<hs.upstream>>))
      /\ (hs.pc \in {"serveConn", "serving"} => hs.negotiated = hs.upstream)
      /\ (hs.negotiated = "h2" \/ hs.target = "h2Server" => hs.upstream = "h2")

\* the client offered h2 and http/1.1, the upstream negotiated no protocol,
\* and the client was served with no protocol negotiated, by the HTTP/1.1
\* listener
C23_Witness ==
    /\ hs.mode = "dialfirst" /\ hs.pc = "serving"
    /\ hs.clientProtos = <<"h2", "http/1.1">> /\ hs.upstream = ""
    /\ hs.NextProtos = <<>> /\ hs.negotiated = "" /\ hs.target = "listener"

\* C24: in lazy mode the config offered to the client lists http/1.1 only:
\* the client never negotiates h2 and the connection is never handed to the
\* HTTP/2 server, whatever the client offers and whether or not the context
\* holds a server connection.
C24_LazyOnlyHTTP1 ==
    hs.mode = "lazy" =>
      /\ (hs.config => hs.NextProtos = <<"http/1.1">>)
      /\ hs.negotiated \in {"", "http/1.1"}
      /\ hs.target # "h2Server"
      /\ (hs.pc = "serving" => hs.target = "listener")

\* a client offering h2 first on a connection whose context already holds a
\* server connection negotiated http/1.1 and went to the HTTP/1.1 listener
C24_Witness ==
    /\ hs.mode = "lazy" /\ hs.pc = "serving" /\ hs.hasServerConn
    /\ hs.clientProtos = <<"h2", "http/1.1">>
    /\ hs.negotiated = "http/1.1" /\ hs.target = "listener"

\* C26: once the client or the upstream has reached EOF or failed, the tunnel
\* ends without any further event from the peers: whenever neither copy
\* goroutine nor transfer itself can take a step, transfer has returned and
\* both sockets are closed.
C26_TunnelEndsWhenEitherSideEnds ==
    (/\ tr.main # "idle"
     /\ (tr.client # "open" \/ tr.server # "open")
     /\ ~ENABLED (CopyClientToServer \/ CopyServerToClient \/ TransferRecv \/ TransferReturn)) =>
      /\ tr.main = "returned"
      /\ tr.closed.client /\ tr.closed.server

\* C21: whatever hook an addon panics in, the proxy process keeps running,
\* and the flow the hook ran for has fired its completion signal once its
\* handler is gone.
C21_AddonPanicRecovered ==
    /\ srv.proc = "running"
    /\ \A c \in Conns :
         (srv.conns[c].pc = "idle" /\ srv.conns[c].flow # "none") =>
           srv.conns[c].flow = "finished"

\* C22: a request the configured authentication function rejects is answered
\* with 407 and Proxy-Authenticate and nothing else happens for it: no flow,
\* no hook, no dial, no hijack, no CONNECT or pipeline handler.
C22_RejectedRequestOnly407 ==
    \A c \in Conns :
      srv.conns[c].req.authFailed =>
        /\ srv.conns[c].log = <<"Proxy-Authenticate", "WriteHeader 407">>
        /\ srv.conns[c].pc = "idle"
        /\ srv.conns[c].flow = "none"
        /\ srv.conns[c].st # "hijacked"
        /\ srv.conns[c].upstream = "none"

\* a CONNECT and a plain request were rejected, on two connections
C22_Witness ==
    \E c, d \in Conns :
      /\ srv.conns[c].req = [method |-> "CONNECT", authFailed |-> TRUE]
      /\ srv.conns[d].req = [method |-> "GET", authFailed |-> TRUE]
      /\ srv.conns[c].log = <<"Proxy-Authenticate", "WriteHeader 407">>
      /\ srv.conns[d].log = <<"Proxy-Authenticate", "WriteHeader 407">>

\* C25: once Close has run, no client connection the proxy accepted is still
\* open, hijacked ones included, and no upstream connection paired with one.
C25_CloseTerminatesAll ==
    srv.entry = "closed" =>
      \A c \in Conns :
        /\ srv.conns[c].st \in {"none", "closed"}
        /\ srv.conns[c].upstream # "open"
\* C33: the first Close of a server wrapper, once ServerDisconnected is
\* delivered, does exactly one thing to the client: a client that is not TLS
\* only has its read side half-closed (no Close of the client wrapper is
\* called); a TLS client with closeAfterResponse false has Close called on its
\* wrapper; a TLS client with closeAfterResponse true is left untouched. A
\* Close that finds the wrapper already closed does nothing to the client.
C33_ServerCloseClientEffect ==
    [][\A p \in Closers :
         /\ (At(p, "server", "client") /\ stack'[p] # stack[p]) =>
               LET callsClientClose ==
                       /\ Len(stack'[p]) = Len(stack[p]) + 1
                       /\ stack'[p][Len(stack'[p])].fn = "client"
               IN /\ Top(p).first
                  /\ Pos(events, SD(Top(p).k)) > 0
                  /\ wcc'.closed = wcc.closed
                  /\ ~cc.TLS =>
                        /\ wcc'.readClosed
                        /\ ~callsClientClose
                  /\ (cc.TLS /\ ~cc.CloseAfterResponse) =>
                        /\ callsClientClose
                        /\ wcc' = wcc
                  /\ (cc.TLS /\ cc.CloseAfterResponse) =>
                        /\ ~callsClientClose
                        /\ wcc' = wcc
         /\ (At(p, "server", "crit") /\ wsc[Top(p).k].closed /\ stack'[p] # stack[p]) =>
               /\ wcc' = wcc
               /\ Len(stack'[p]) < Len(stack[p])
    ]_vars

\* the upstream of a TLS client was closed while the response in flight was
\* marked close: ServerDisconnected is delivered, Close has returned, and the
\* client wrapper is neither closed nor half-closed
C33_Witness ==
    /\ cc.TLS /\ cc.CloseAfterResponse
    /\ \E k \in 1..Len(wsc) :
          /\ wsc[k].closed
          /\ ghost.serverClosedBy[k] = "top"
          /\ Pos(events, SD(k)) > 0
    /\ \A p \in Closers : stack[p] = <<>>
    /\ ~wcc.closed /\ ~wcc.readClosed

\* C40: a Close call on either wrapper returns. The calls nest at most three
\* deep (a wrapper's Close, the other wrapper's Close it calls, and the call
\* back that finds the first wrapper already closed), and every goroutine
\* that is inside a Close call eventually leaves it, also when the two
\* wrappers are closed from different goroutines at the same time.
C40_CloseReturns ==
    /\ [](\A p \in Closers : Len(stack[p]) <= 3)
    /\ \A p \in Closers : (stack[p] # <<>>) ~> (stack[p] = <<>>)

\* one goroutine closed the client wrapper of a TLS connection while another
\* closed its server wrapper; each Close cascaded into the other wrapper and
\* all calls have returned
C40_Witness ==
    /\ cc.TLS /\ ~cc.CloseAfterResponse
    /\ ghost.calls = 2
    /\ ghost.reentered
    /\ ghost.clientClosedBy = "top"
    /\ \E k \in 1..Len(wsc) : ghost.serverClosedBy[k] = "top"
    /\ \A p \in Closers : stack[p] = <<>>

\* C36: whenever the pipeline sends a request through the connection's server
\* connection (not through the shared main client), that server connection
\* has an HTTP client: it is never the one that a deferred HTTPS dial left
\* behind when its TCP connect succeeded and its TLS handshake failed.
C36_ServerConnHasClient ==
    (pc = "Do" /\ ~(f.UseSeparateClient \/ f.urlChanged))
        => connCtx.ServerConn # "noclient"

\* C38: the pipeline never sends a request through a server connection whose
\* wrapper has been closed (its ServerDisconnected delivered), also when the
\* client connection is still open and delivers a request after the upstream
\* went away.
C38_NoRequestOnClosedServerConn ==
    [][(handler.pc # "do" /\ handler'.pc = "do" /\ cc'.ServerConn # 0) =>
          ~(wsc'[cc'.ServerConn].closed /\ Pos(events', SD(cc'.ServerConn)) > 0)]_vars

\* C39: once the client wrapper is closed, every server connection of the
\* context is eventually closed and its ServerDisconnected delivered. Stated
\* for the case the claim singles out: the client wrapper is closed while a
\* deferred dial is in progress, and the server connection that the dial
\* installs afterwards is among those that must end up closed.
C39_ClientCloseClosesServerConns ==
    (wcc.closed /\ handler.pc = "dialing")
        ~> /\ handler.pc # "dialing"
           /\ \A k \in 1..Len(wsc) : wsc[k].closed /\ Pos(events, SD(k)) > 0

\* C31: every failure to connect through an upstream proxy reaches the caller
\* as an error value, which the pipeline turns into a status: no failure
\* path panics, and none returns without an error.
C31_DialFailureReturnsError ==
    /\ up.pc # "panicked"
    /\ up.pc = "returned" => (up.ret.conn = "nil" <=> up.ret.err # "nil")
    /\ up.status \in {0, 407, 502}

\* C37: on a plain-HTTP client connection every request that goes out over
\* the connection's server connection goes out over one that was dialed to
\* that request's own target host.
C37_RequestOverOwnHostConn ==
    \A i \in 1..Len(fwd.sent) :
        fwd.sent[i].via = "server" => fwd.sent[i].addr = fwd.sent[i].target

\* C32: the upstream exchange goes through the shared main client exactly
\* when Flow.UseSeparateClient is set or an addon changed the host or scheme
\* of the request URL from the values recorded at flow start; in that case
\* the deferred dial function has not been invoked and the exchange does not
\* go through the client of the connection's server connection.
C32_SeparateClientIff ==
    hist.client # "none" =>
        /\ hist.client = "main" <=> (f.UseSeparateClient \/ f.urlChanged)
        /\ hist.client = "main" => ~HasEv("Dial")

\* a request of a lazily intercepted connection that has no server connection
\* yet and whose URL an addon rewrote was exchanged through the main client:
\* nothing was dialed and the context still has no server connection
C32_Witness ==
    /\ hist.client = "main"
    /\ f.urlChanged /\ ~f.UseSeparateClient
    /\ connCtx.DialFn # "nil"
    /\ connCtx.ServerConn = "nil"
    /\ HasEv("Do")
    /\ ~HasEv("Dial")

\* C34: the dial-first TLS splice terminates whatever the two handshakes do:
\* HTTPSTLSDial returns or goes on to serve the connection, the handshake
\* goroutine exits, and neither is left blocked on a channel.
C34_SpliceTerminates ==
    <>[](sp.main \in {"returned", "serveConn"} /\ sp.h = "exited")

\* the upstream handshake failed while the handshake goroutine was waiting in
\* GetConfigForClient: the goroutine took the error from errChan2, left its
\* own in errChan1 and exited, after HTTPSTLSDial had returned
C34_Witness ==
    /\ sp.serverFailed
    /\ sp.main = "returned"
    /\ sp.h = "exited"
    /\ sp.errChan1 = 1 /\ sp.errChan2 = 0

\* C35: if the client-side or the upstream-side handshake of the splice
\* fails, the connection is not handed to the request loop, and HTTPSTLSDial
\* returns with both the client socket and the upstream socket closed.
C35_HandshakeFailureClosesBoth ==
    /\ sp.main = "serveConn" => (~sp.clientFailed /\ ~sp.serverFailed)
    /\ sp.main = "returned" =>
          /\ sp.clientFailed \/ sp.serverFailed
          /\ sp.cconn = "closed" /\ sp.sconn = "closed"
    /\ (sp.h = "exited" /\ sp.clientFailed) => sp.main # "serveConn"

\* the upstream handshake succeeded and the client's failed afterwards:
\* HTTPSTLSDial has returned with both sockets closed
C35_Witness ==
    /\ sp.clientFailed /\ ~sp.serverFailed /\ ~sp.ctxDone
    /\ sp.main = "returned"
    /\ sp.cconn = "closed" /\ sp.sconn = "closed"

====
